---- MODULE Spec2Model ----
(***************************************************************************)
(* Catalog / price-feed reconciliation and static rendering pipeline of    *)
(* price-comparison-site.                                                  *)
(*                                                                         *)
(* Generators modelled:                                                    *)
(*   "part_000"  StaticSiteGenerator.build        (src/unnamed/part_000)   *)
(*   "part_001"  StaticSiteGenerator.build        (src/unnamed/part_001)   *)
(*   "static"    generateStaticSite          (src/generate-static.js)      *)
(*   "site1"     generateStaticSite, 1st variant (generate-static-site.js) *)
(*   "site2"     generateStaticSite, 2nd variant (generate-static-site.js) *)
(*   "update"    main                             (src/update-html.js)     *)
(*   "fetch"     main                      (src/fetch-amazon-prices.js)     *)
(*                                                                         *)
(* JavaScript values are records [t, n, s]: t is the type tag, n the       *)
(* numeric value in hundredths, s the text as a sequence of characters.    *)
(***************************************************************************)
EXTENDS Integers, Sequences, FiniteSets, TLC

VARIABLES
    gen,          \* which generator runs
    pc,           \* position of the run
    catalog,      \* products as parsed from the catalog (before reconciliation)
    feed,         \* parsed price feed (JSON array)
    template,     \* the template file: a token sequence, or NoFile
    productsData, \* this.productsData / products
    output,       \* the output file: a token sequence, or NoFile
    status,       \* what the run reported: "none", "success", "error"
    csvFetch,     \* outcome of the catalog fetch
    feedFetch,    \* outcome of the price-feed fetch / parse
    runs,         \* number of completed runs on the same file
    firstOut,     \* the output after the first run
    dIn,          \* input of the derivation functions
    dOut,         \* their results
    csvText,      \* the text of product_names.csv, or AnyCsv
    parsed,       \* the header names and the products parseCSVData made of it
    reported,     \* the counters the reconciliation logged
    priceTable    \* the prices fetch-amazon-prices.js keeps in data/prices.json

vars == <<gen, pc, catalog, feed, template, productsData, output, status,
          csvFetch, feedFetch, runs, firstOut, dIn, dOut, csvText, parsed,
          reported, priceTable>>

-----------------------------------------------------------------------------
(* JavaScript values *)

Undef == [t |-> "undefined", n |-> 0, s |-> <<>>]
Null == [t |-> "null", n |-> 0, s |-> <<>>]
NaN == [t |-> "NaN", n |-> 0, s |-> <<>>]
True == [t |-> "boolean", n |-> 1, s |-> <<>>]
Num(h) == [t |-> "number", n |-> h, s |-> <<>>]
Str(cs) == [t |-> "string", n |-> 0, s |-> cs]

\* ToBoolean: undefined, null, 0, NaN and "" are falsy
Truthy(v) ==
    CASE v.t = "number" -> v.n # 0
      [] v.t = "string" -> v.s # <<>>
      [] v.t = "boolean" -> v.n # 0
      [] OTHER -> FALSE

IsString(v) == v.t = "string"

\* a || b
OrElse(a, b) == IF Truthy(a) THEN a ELSE b

DigitChars == <<"0", "1", "2", "3", "4", "5", "6", "7", "8", "9">>
IsDigit(c) == \E i \in 1..Len(DigitChars) : DigitChars[i] = c
DigitVal(c) == (CHOOSE i \in 1..Len(DigitChars) : DigitChars[i] = c) - 1

RECURSIVE TakeDigits(_)
\* the longest prefix of decimal digits
TakeDigits(cs) ==
    IF cs # <<>> /\ IsDigit(Head(cs)) THEN <<Head(cs)>> \o TakeDigits(Tail(cs))
    ELSE <<>>

RECURSIVE DigitsVal(_, _)
DigitsVal(ds, acc) ==
    IF ds = <<>> THEN acc ELSE DigitsVal(Tail(ds), acc * 10 + DigitVal(Head(ds)))

RECURSIVE TrimStart(_)
TrimStart(cs) == IF cs # <<>> /\ Head(cs) = " " THEN TrimStart(Tail(cs)) ELSE cs

Drop(cs, k) == SubSeq(cs, k + 1, Len(cs))

\* the first two fraction digits as hundredths (inputs carry at most two)
FracHundredths(fs) ==
    IF fs = <<>> THEN 0
    ELSE IF Len(fs) = 1 THEN DigitVal(fs[1]) * 10
    ELSE DigitVal(fs[1]) * 10 + DigitVal(fs[2])

\* parseInt(text): optional blanks, optional sign, decimal digits; NaN without digits
ParseIntChars(cs0) ==
    LET cs == TrimStart(cs0)
        neg == cs # <<>> /\ Head(cs) = "-"
        body == IF cs # <<>> /\ Head(cs) \in {"-", "+"} THEN Tail(cs) ELSE cs
        ds == TakeDigits(body)
    IN  IF ds = <<>> THEN NaN
        ELSE Num((IF neg THEN -1 ELSE 1) * DigitsVal(ds, 0) * 100)

\* parseFloat(text): optional blanks, optional sign, digits [. digits]; NaN without digits
ParseFloatChars(cs0) ==
    LET cs == TrimStart(cs0)
        neg == cs # <<>> /\ Head(cs) = "-"
        body == IF cs # <<>> /\ Head(cs) \in {"-", "+"} THEN Tail(cs) ELSE cs
        ds == TakeDigits(body)
        rest == Drop(body, Len(ds))
        fs == IF rest # <<>> /\ Head(rest) = "." THEN TakeDigits(Tail(rest)) ELSE <<>>
    IN  IF ds = <<>> /\ fs = <<>> THEN NaN
        ELSE Num((IF neg THEN -1 ELSE 1) * (DigitsVal(ds, 0) * 100 + FracHundredths(fs)))

RECURSIVE NatChars(_)
\* decimal digits of a natural number
NatChars(k) ==
    IF k < 10 THEN <<DigitChars[k + 1]>>
    ELSE NatChars(k \div 10) \o <<DigitChars[(k % 10) + 1]>>

Abs(i) == IF i < 0 THEN -i ELSE i

\* Number.prototype.toFixed(2) of a finite number held in hundredths
ToFixed2(h) ==
    (IF h < 0 THEN <<"-">> ELSE <<>>)
        \o NatChars(Abs(h) \div 100)
        \o <<".", DigitChars[((Abs(h) % 100) \div 10) + 1], DigitChars[(Abs(h) % 10) + 1]>>

\* Number.prototype.toString(): shortest decimal form
NumToChars(h) ==
    LET a == Abs(h)
        frac == IF a % 100 = 0 THEN <<>>
                ELSE IF a % 10 = 0 THEN <<".", DigitChars[((a % 100) \div 10) + 1]>>
                ELSE <<".", DigitChars[((a % 100) \div 10) + 1], DigitChars[(a % 10) + 1]>>
    IN  (IF h < 0 THEN <<"-">> ELSE <<>>) \o NatChars(a \div 100) \o frac

\* String(v) / v.toString() for the values that reach it
ToChars(v) ==
    CASE v.t = "string" -> v.s
      [] v.t = "number" -> NumToChars(v.n)
      [] v.t = "NaN" -> <<"N", "a", "N">>
      [] v.t = "null" -> <<"n", "u", "l", "l">>
      [] v.t = "boolean" -> IF v.n # 0 THEN <<"t", "r", "u", "e">> ELSE <<"f", "a", "l", "s", "e">>
      [] OTHER -> <<"u", "n", "d", "e", "f", "i", "n", "e", "d">>

\* parseFloat(v), parseInt(v): the argument is converted to text first
ParseFloat(v) == ParseFloatChars(ToChars(v))
ParseInt(v) == ParseIntChars(ToChars(v))

RECURSIVE Strip(_, _)
\* text.replace(/[chars]/g, '')
Strip(cs, chars) ==
    IF cs = <<>> THEN <<>>
    ELSE IF Head(cs) \in chars THEN Strip(Tail(cs), chars)
    ELSE <<Head(cs)>> \o Strip(Tail(cs), chars)

StartsWith(cs, c) == cs # <<>> /\ Head(cs) = c

\* x > 0 on numbers; every comparison with NaN is false
GtZero(v) == v.t = "number" /\ v.n > 0
LeZero(v) == v.t = "number" /\ v.n <= 0
IsNaN(v) == v.t = "NaN"

\* (a / b).toFixed(digits): a, b finite numbers in hundredths; IEEE division by zero
\* gives Infinity or NaN, which toFixed prints as such
DivToFixed(a, b, digits) ==
    IF b = 0 THEN (IF a = 0 THEN <<"N", "a", "N">>
                   ELSE (IF a < 0 THEN <<"-">> ELSE <<>>) \o <<"I", "n", "f", "i", "n", "i", "t", "y">>)
    ELSE LET scale == IF digits = 2 THEN 100 ELSE 1000
             q == (2 * Abs(a) * scale + Abs(b)) \div (2 * Abs(b))   \* round half up
             neg == (a < 0) # (b < 0) /\ a # 0
             fr == q % scale
             pad == IF digits = 3 /\ fr < 100 THEN <<"0">> ELSE <<>>
             pad2 == IF fr < 10 THEN <<"0">> ELSE <<>>
         IN  (IF neg THEN <<"-">> ELSE <<>>) \o NatChars(q \div scale) \o <<".">>
                 \o pad \o pad2 \o NatChars(fr)

-----------------------------------------------------------------------------
(* Derivation functions *)

PriceUnavailable == <<"P", "r", "i", "c", "e", " ", "u", "n", "a", "v", "a", "i", "l", "a", "b", "l", "e">>
NA == <<"N", "/", "A">>

\* ToNumber(v) as used by the operators <=, > and / of update-html.js
ToNumber(v) ==
    CASE v.t = "number" -> v
      [] v.t = "null" -> Num(0)
      [] v.t = "boolean" -> Num(v.n * 100)
      [] v.t = "string" ->
            LET cs == TrimStart(v.s)
                body == IF cs # <<>> /\ Head(cs) \in {"-", "+"} THEN Tail(cs) ELSE cs
                ds == TakeDigits(body)
                rest == Drop(body, Len(ds))
                fs == IF rest # <<>> /\ Head(rest) = "." THEN TakeDigits(Tail(rest)) ELSE <<>>
                whole == Len(body) = Len(ds) + (IF rest # <<>> /\ Head(rest) = "." THEN 1 + Len(fs) ELSE 0)
            IN  IF cs = <<>> THEN Num(0)
                ELSE IF whole THEN ParseFloatChars(cs) ELSE NaN
      [] OTHER -> NaN

\* determineProductType(wattage), identical in part_000, part_001 and generate-static.js
determineProductType(wattage) ==
    LET watts == OrElse(ParseInt(wattage), Num(0))
    IN  IF watts.n <= 500 * 100 THEN "small_wattage"
        ELSE IF watts.n <= 1500 * 100 THEN "medium_wattage"
        ELSE "large_wattage"

\* formatPrice(price), identical in part_000, part_001 and generate-static.js
formatPrice(price) ==
    IF ~Truthy(price) \/ price = Str(<<"0">>) \/ price = Str(<<>>) \/ price = Str(NA)
    THEN PriceUnavailable
    ELSE IF IsString(price) /\ StartsWith(price.s, "$") THEN price.s
    ELSE LET numPrice == ParseFloatChars(Strip(ToChars(price), {"$", ","}))
         IN  IF IsNaN(numPrice) \/ numPrice.n <= 0 THEN PriceUnavailable
             ELSE <<"$">> \o ToFixed2(numPrice.n)

\* a price-per-watt result: the cell text, and the divisor when a division was evaluated
NoDivision(text) == [text |-> text, divided |-> FALSE, divisor |-> 0]
Divided(a, b, digits) ==
    [text |-> <<"$">> \o DivToFixed(a, b, digits), divided |-> TRUE, divisor |-> b]

\* calculatePricePerWatt with the wattage test left out of the guard
calculatePricePerWattUnguarded(product) ==
    LET priceText == formatPrice(product.price)
        price == ParseFloatChars(Strip(priceText, {"$", ","}))
        wattage == ParseFloat(OrElse(product.output_wattage, Str(<<"0">>)))
    IN  IF priceText = PriceUnavailable THEN NoDivision(NA)
        ELSE IF ~IsNaN(wattage) /\ ~IsNaN(price) /\ price.n > 0
             THEN Divided(price.n, wattage.n, 2)
             ELSE NoDivision(NA)

\* StaticSiteGenerator.calculatePricePerWatt(product), part_000 and part_001
calculatePricePerWatt(product) ==
    LET priceText == formatPrice(product.price)
        price == ParseFloatChars(Strip(priceText, {"$", ","}))
        wattage == ParseFloat(OrElse(product.output_wattage, Str(<<"0">>)))
    IN  IF priceText = PriceUnavailable THEN NoDivision(NA)
        ELSE IF GtZero(wattage) /\ ~IsNaN(price) /\ price.n > 0
             THEN Divided(price.n, wattage.n, 2)
             ELSE NoDivision(NA)

\* calculatePricePerWatt(price, wattage) of generate-static.js: price is the formatted
\* price text, wattage is product.output_wattage || '0'
calculatePricePerWattStatic(price, wattage) ==
    IF price = <<>> \/ price = PriceUnavailable \/ ~Truthy(wattage) THEN NoDivision(NA)
    ELSE LET priceValue == ParseFloatChars(Strip(price, {"$", ","}))
             wattageValue == ParseFloat(wattage)
         IN  IF GtZero(wattageValue) /\ ~IsNaN(priceValue) /\ priceValue.n > 0
             THEN Divided(priceValue.n, wattageValue.n, 2)
             ELSE NoDivision(NA)

\* calculatePricePerWatt(price, wattage) of update-html.js with the cell text its caller
\* writes: null becomes "N/A"; price is priceInfo.price, wattage is parseInt(data-wattage)
calculatePricePerWattUpdate(price, wattage) ==
    LET p == ToNumber(price)
    IN  IF ~Truthy(price) \/ ~Truthy(wattage) \/ LeZero(p) \/ LeZero(wattage)
        THEN NoDivision(NA)
        ELSE IF IsNaN(p) THEN [text |-> <<"$", "N", "a", "N">>, divided |-> TRUE, divisor |-> wattage.n]
        ELSE Divided(p.n, wattage.n, 3)

RECURSIVE KeepDigitsDot(_)
\* text.replace(/[^\d.]/g, '')
KeepDigitsDot(cs) ==
    IF cs = <<>> THEN <<>>
    ELSE IF IsDigit(Head(cs)) \/ Head(cs) = "." THEN <<Head(cs)>> \o KeepDigitsDot(Tail(cs))
    ELSE KeepDigitsDot(Tail(cs))

\* the price value and price cell computed by the first generate-static-site.js variant
Site1Price(product) ==
    IF ~Truthy(product.price) THEN [value |-> Num(0), text |-> NA]
    ELSE IF IsString(product.price)
         THEN LET v == ParseFloatChars(KeepDigitsDot(product.price.s))
              IN  [value |-> v,
                   text |-> IF StartsWith(product.price.s, "$") THEN product.price.s
                            ELSE IF IsNaN(v) THEN <<"$", "N", "a", "N">>
                            ELSE <<"$">> \o ToFixed2(v.n)]
    ELSE IF product.price.t = "number"
         THEN [value |-> product.price, text |-> <<"$">> \o ToFixed2(product.price.n)]
    ELSE IF Truthy(product.price_amount) /\ product.price_amount.t = "number"
         THEN [value |-> product.price_amount, text |-> <<"$">> \o ToFixed2(product.price_amount.n)]
    ELSE [value |-> Num(0), text |-> NA]

\* the inline price-per-watt computation of the first generate-static-site.js variant
Site1PricePerWatt(product) ==
    LET priceValue == Site1Price(product).value
        runningWattage == ParseFloat(OrElse(product.running_wattage, Num(0)))
    IN  IF GtZero(priceValue) /\ GtZero(runningWattage)
        THEN Divided(priceValue.n, runningWattage.n, 3)
        ELSE NoDivision(NA)

\* the inline computation of the second variant for a matched product with
\* price_available set; rowWattage is row.wattage of the fixed productRows table
Site2PricePerWatt(product, rowWattage) ==
    LET priceValue == ParseFloatChars(KeepDigitsDot(product.price.s))
        wattage == ParseInt(rowWattage)
    IN  IF GtZero(wattage) /\ GtZero(priceValue)
        THEN Divided(priceValue.n, wattage.n, 3)
        ELSE NoDivision(NA)

\* String.prototype.toLowerCase on the letters A-Z
UpperChars == <<"A", "B", "C", "D", "E", "F", "G", "H", "I", "J", "K", "L", "M", "N", "O", "P", "Q", "R", "S", "T", "U", "V", "W", "X", "Y", "Z">>
LowerChars == <<"a", "b", "c", "d", "e", "f", "g", "h", "i", "j", "k", "l", "m", "n", "o", "p", "q", "r", "s", "t", "u", "v", "w", "x", "y", "z">>
ToLowerChar(c) ==
    IF \E i \in 1..26 : UpperChars[i] = c
    THEN LowerChars[CHOOSE i \in 1..26 : UpperChars[i] = c]
    ELSE c
ToLowerChars(cs) == [i \in 1..Len(cs) |-> ToLowerChar(cs[i])]

\* String.prototype.includes
Includes(cs, sub) ==
    \E i \in 0..(Len(cs) - Len(sub)) : SubSeq(cs, i + 1, i + Len(sub)) = sub

\* cs.replace(from, to) with one-character strings: the first occurrence only
ReplaceFirstChar(cs, from, to) ==
    LET hits == {i \in 1..Len(cs) : cs[i] = from}
    IN  IF hits = {} THEN cs
        ELSE [cs EXCEPT ![CHOOSE i \in hits : \A j \in hits : i <= j] = to]

Gasoline == <<"g", "a", "s", "o", "l", "i", "n", "e">>
New == <<"n", "e", "w">>

\* the data-fuel-type attribute of generateTableRows and of generate-static.js
FuelTypeAttribute(fuel_type) ==
    ReplaceFirstChar(ToLowerChars(ToChars(OrElse(fuel_type, Str(Gasoline)))), " ", "_")

\* the data-condition attribute
ConditionAttribute(condition) == ToLowerChars(ToChars(OrElse(condition, Str(New))))

\* brandMap, in the order of its declaration
brandMap ==
    << [key |-> <<"h", "o", "n", "d", "a">>, value |-> "honda"],
       [key |-> <<"y", "a", "m", "a", "h", "a">>, value |-> "yamaha"],
       [key |-> <<"g", "e", "n", "e", "r", "a", "c">>, value |-> "generac"],
       [key |-> <<"c", "h", "a", "m", "p", "i", "o", "n">>, value |-> "champion"],
       [key |-> <<"w", "e", "s", "t", "i", "n", "g", "h", "o", "u", "s", "e">>, value |-> "westinghouse"],
       [key |-> <<"z", "e", "r", "o", "k", "o", "r">>, value |-> "zerokor"],
       [key |-> <<"e", "c", "o", "f", "l", "o", "w">>, value |-> "ef_ecoflow"],
       [key |-> <<"b", "u", "l", "l", "e", "t", "i">>, value |-> "bulleti"],
       [key |-> <<"j", "a", "c", "k", "e", "r", "y">>, value |-> "jackery"],
       [key |-> <<"a", "n", "k", "e", "r">>, value |-> "anker"],
       [key |-> <<"m", "a", "r", "b", "e", "r", "o">>, value |-> "marbero"],
       [key |-> <<"o", "u", "p", "e", "s">>, value |-> "oupes"],
       [key |-> <<"g", "r", "e", "c", "e", "l", "l">>, value |-> "grecell"],
       [key |-> <<"a", "l", "l", "w", "e", "i">>, value |-> "allwei"],
       [key |-> <<"a", "l", "l", "p", "o", "w", "e", "r", "s">>, value |-> "allpowers"],
       [key |-> <<"p", "e", "c", "r", "o", "n">>, value |-> "pecron"] >>

\* the index of the first entry of the table, from position from on, whose keyword the
\* text includes;
\* 0 when there is none
RECURSIVE FirstEntry(_, _, _)
FirstEntry(text, table, from) ==
    IF from > Len(table) THEN 0
    ELSE IF Includes(text, table[from].key) THEN from
    ELSE FirstEntry(text, table, from + 1)

\* extractBrandFromLink keeping the case of the text: no toLowerCase
extractBrandFromLinkCaseSensitive(affiliateUrl) ==
    IF ~Truthy(affiliateUrl) THEN "other_brand"
    ELSE LET hit == FirstEntry(ToChars(affiliateUrl), brandMap, 1)
         IN  IF hit = 0 THEN "other_brand" ELSE brandMap[hit].value

\* extractBrandFromLink(affiliateUrl), identical in part_000, part_001 and
\* generate-static.js
extractBrandFromLink(affiliateUrl) ==
    IF ~Truthy(affiliateUrl) THEN "other_brand"
    ELSE LET textToCheck == ToLowerChars(ToChars(affiliateUrl))
             hit == FirstEntry(textToCheck, brandMap, 1)
         IN  IF hit = 0 THEN "other_brand" ELSE brandMap[hit].value

\* the argument generateTableRows passes: product.affiliate_url || product.link || ''
BrandText(product) == OrElse(OrElse(product.affiliate_url, product.link), Str(<<>>))

-----------------------------------------------------------------------------
(* The derivation functions applied to one input record *)

\* price values a catalog field or a JSON price may hold
PriceInputs ==
    { Undef, Null, True, Num(0), Num(14950), Num(-500), Num(12000),
      Str(<<>>), Str(<<"0">>), Str(NA), Str(<<"$", "1", "9", "9", ".", "9", "9">>),
      Str(<<"$", "0">>), Str(<<"$", "a", "b", "c">>), Str(<<"1", "0", "0">>),
      Str(<<"1", ",", "2", "9", "9", ".", "5">>), Str(<<"a", "b", "c">>), Str(<<"-", "5">>) }

\* wattage values a catalog field, a JSON field or a data-wattage attribute may hold
WattInputs ==
    { Undef, Num(0), Num(80000), Str(<<>>), Str(<<"0">>), Str(<<"a", "b", "c">>),
      Str(<<"5", "0", "0">>), Str(<<"5", "0", "1">>), Str(<<"1", "5", "0", "0">>),
      Str(<<"1", "5", "0", "1">>), Str(<<"8", "0", "0">>), Str(<<"5", "0", "0", ".", "5">>),
      Str(<<"-", "5">>) }

\* row.wattage of the fixed productRows table
RowWattages ==
    { Str(<<"2", "2", "0", "0">>), Str(<<"1", "0", "0", "0">>), Str(<<"8", "0", "0">>),
      Str(<<"2", "4", "0", "0">>), Str(<<"7", "2", "0", "0">>), Str(<<"3", "0", "0">>),
      Str(<<"6", "0", "0">>), Str(<<"1", "8", "0", "0">>) }

PpwVariants == {"part_000", "static", "update", "site1", "site2"}

TypeErrorThrown == NoDivision(<<"TypeError">>)

\* a document is a sequence of tokens; a token is a literal piece of markup (k), with
\* the rows, the counts and the time of the run substituted into it
Tok(k) == [k |-> k, rows |-> <<>>, total |-> 0, priced |-> 0, time |-> 0]

\* the file does not exist
NoFile == <<Tok("(no file)")>>

\* fuel_type values of a catalog row
FuelInputs ==
    { Undef, Str(<<>>), Str(<<"G", "a", "s">>), Str(<<"g", "a", "s", "o", "l", "i", "n", "e">>), Str(<<"D", "u", "a", "l", " ", "F", "u", "e", "l">>), Str(<<"d", "u", "a", "l", "-", "f", "u", "e", "l">>), Str(<<"e", "l", "e", "c", "t", "r", "i", "c">>), Str(<<"P", "r", "o", "p", "a", "n", "e">>), Str(<<"S", "o", "l", "a", "r">>) }

\* affiliate_url values of a catalog row: the display text of the product
AffiliateTexts ==
    { Undef, Str(<<>>), Str(<<"E", "c", "o", "F", "l", "o", "w", " ", "R", "i", "v", "e", "r", " ", "2">>), Str(<<"A", "n", "k", "e", "r", " ", "v", "s", " ", "H", "o", "n", "d", "a">>), Str(<<"A", "N", "K", "E", "R", " ", "5", "2", "1">>), Str(<<"P", "o", "w", "e", "r", " ", "S", "t", "a", "t", "i", "o", "n">>), Str(<<"C", "h", "a", "m", "p">>) }

\* link values of a catalog row
LinkTexts == { Str(<<>>), Str(<<"h", "t", "t", "p", "s", ":", "/", "/", "a", "m", "z", "n", ".", "t", "o", "/", "j", "a", "c", "k", "e", "r", "y">>) }

NoInput ==
    [price |-> Undef, wattage |-> Undef, fuel_type |-> Undef, affiliate_url |-> Undef,
     link |-> Str(<<>>)]

\* one record is varied in its price and wattage, or in its fuel type and texts
DeriveInputs ==
    { [NoInput EXCEPT !.price = p, !.wattage = w] : p \in PriceInputs, w \in WattInputs }
    \cup { [NoInput EXCEPT !.fuel_type = f, !.affiliate_url = a, !.link = l] :
               f \in FuelInputs, a \in AffiliateTexts, l \in LinkTexts }

\* ---------------------------------------------------------------------------
\* fetch-amazon-prices.js: the price table kept in data/prices.json
\* ---------------------------------------------------------------------------

\* config.products of config/products-config.json: a key and an ASIN each
ConfigProducts ==
    << [key |-> "jackery-explorer-300", asin |-> "B082TMBYR6"],
       [key |-> "ecoflow-river-2-pro", asin |-> "B0C1Z4GLKS"] >>

ConfigKeys == {ConfigProducts[i].key : i \in 1..Len(ConfigProducts)}

\* a key data/prices.json has no entry for
NoEntry == [asin |-> "", price |-> Undef, lastUpdated |-> 0]

\* existingPrices when data/prices.json cannot be read: { prices: {} }
NoTable == [k \in ConfigKeys |-> NoEntry]

\* an item of ItemsResult.Items: Offers.Listings[0].Price.Amount, and
\* Offers.Summaries[0].LowestPrice with its Amount
Item(asin, listingAmount, lowestPrice, lowestAmount) ==
    [ASIN |-> asin, listingAmount |-> listingAmount, lowestPrice |-> lowestPrice,
     lowestAmount |-> lowestAmount]

ItemPool ==
    { Item(a, Num(19999), FALSE, Undef) : a \in {"B082TMBYR6", "B0C1Z4GLKS"} }
    \cup { Item(a, Undef, TRUE, Num(18900)) : a \in {"B082TMBYR6", "B0C1Z4GLKS"} }
    \cup { Item(a, Undef, FALSE, Undef) : a \in {"B082TMBYR6", "B0C1Z4GLKS"} }
    \cup { Item("B082TMBYR6", Num(0), TRUE, Undef), Item("B0UNLISTED", Num(4999), FALSE, Undef) }

extractPriceInfo(item, clock) ==
    LET listed == IF Truthy(item.listingAmount) THEN ParseFloat(item.listingAmount) ELSE Null
        price == IF ~Truthy(listed) /\ item.lowestPrice
                 THEN ParseFloat(item.lowestAmount) ELSE listed
    IN  [asin |-> item.ASIN, price |-> price, lastUpdated |-> clock]

\* batch.find(p => p.asin === item['ASIN'])
BatchFind(batch, asin) ==
    LET hits == {i \in 1..Len(batch) : batch[i].asin = asin}
    IN  IF hits = {} THEN 0 ELSE CHOOSE i \in hits : \A k \in hits : i <= k

\* the loop of main over the items of one batch
RECURSIVE ProcessItems(_, _, _, _)
ProcessItems(updatedPrices, items, batch, clock) ==
    IF items = <<>> THEN updatedPrices
    ELSE LET priceInfo == extractPriceInfo(Head(items), clock)
             product == BatchFind(batch, Head(items).ASIN)
             next == IF product # 0
                     THEN [updatedPrices EXCEPT ![batch[product].key] = priceInfo]
                     ELSE updatedPrices
         IN  ProcessItems(next, Tail(items), batch, clock)

\* successCount of main
RECURSIVE successCount(_, _, _)
successCount(items, batch, clock) ==
    IF items = <<>> THEN 0
    ELSE (IF BatchFind(batch, Head(items).ASIN) # 0
             /\ Truthy(extractPriceInfo(Head(items), clock).price) THEN 1 ELSE 0)
         + successCount(Tail(items), batch, clock)

\* no "matched, updated" line has been logged
NothingReported == [logged |-> FALSE, matchedCount |-> 0, updatedCount |-> 0]

\* nothing parsed
NoParse == [headers |-> <<>>, values |-> <<>>, products |-> <<>>]

\* a catalog text that is not spelled out: its products are drawn from ProductPool
AnyCsv == <<"product_names.csv">>

NothingDerived ==
    [productType |-> "", formatted |-> <<>>, rowWattage |-> Undef,
     ppw |-> [v \in PpwVariants |-> NoDivision(<<>>)],
     fuelType |-> <<>>, brand |-> ""]

DeriveInit ==
    /\ dIn \in DeriveInputs
    /\ dOut = NothingDerived
    /\ pc = "input"
    /\ gen = "derive"
    /\ catalog = <<>> /\ feed = <<>> /\ productsData = <<>>
    /\ template = NoFile /\ output = NoFile /\ firstOut = NoFile
    /\ status = "none" /\ csvFetch = "none" /\ feedFetch = "none" /\ runs = 0
    /\ csvText = AnyCsv /\ parsed = NoParse /\ reported = NothingReported /\ priceTable = NoTable

PipelineUnchanged ==
    UNCHANGED <<gen, catalog, feed, template, productsData, output, status,
                csvFetch, feedFetch, runs, firstOut, csvText, parsed, reported,
                priceTable>>

\* the data-fuel-type attribute of the row
DeriveFuelType ==
    /\ pc = "input"
    /\ dOut' = [dOut EXCEPT !.fuelType = FuelTypeAttribute(dIn.fuel_type)]
    /\ pc' = "fueled"
    /\ UNCHANGED dIn /\ PipelineUnchanged

\* the data-brand attribute of the row
DeriveBrand ==
    /\ pc = "fueled"
    /\ dOut' = [dOut EXCEPT !.brand = extractBrandFromLink(BrandText(dIn))]
    /\ pc' = "branded"
    /\ UNCHANGED dIn /\ PipelineUnchanged

DeriveType ==
    /\ pc = "branded"
    /\ dOut' = [dOut EXCEPT !.productType = determineProductType(dIn.wattage)]
    /\ pc' = "typed"
    /\ UNCHANGED dIn /\ PipelineUnchanged

DeriveFormat ==
    /\ pc = "typed"
    /\ dOut' = [dOut EXCEPT !.formatted = formatPrice(dIn.price)]
    /\ pc' = "formatted"
    /\ UNCHANGED dIn /\ PipelineUnchanged

DerivePerWatt ==
    /\ pc = "formatted"
    /\ \E rw \in RowWattages :
         dOut' = [dOut EXCEPT !.rowWattage = rw, !.ppw =
            [v \in PpwVariants |->
                CASE v = "part_000" ->
                        calculatePricePerWatt([price |-> dIn.price, output_wattage |-> dIn.wattage])
                  [] v = "static" ->
                        calculatePricePerWattStatic(formatPrice(dIn.price),
                                                    OrElse(dIn.wattage, Str(<<"0">>)))
                  [] v = "update" ->
                        calculatePricePerWattUpdate(dIn.price, ParseInt(dIn.wattage))
                  [] v = "site1" ->
                        Site1PricePerWatt([price |-> dIn.price, price_amount |-> Undef,
                                           running_wattage |-> dIn.wattage])
                  [] OTHER ->
                        IF IsString(dIn.price)
                        THEN Site2PricePerWatt([price |-> dIn.price], rw)
                        ELSE TypeErrorThrown]]
    /\ pc' = "derived"
    /\ UNCHANGED dIn /\ PipelineUnchanged

DeriveNext == DeriveFuelType \/ DeriveBrand \/ DeriveType \/ DeriveFormat \/ DerivePerWatt

SpecDerive == DeriveInit /\ [][DeriveNext]_vars

-----------------------------------------------------------------------------
(* Catalog parsing *)

\* String.prototype.trim on the white space a catalog text holds
IsSpace(c) == c \in {" ", "\n"}

RECURSIVE TrimLeft(_)
TrimLeft(cs) == IF cs # <<>> /\ IsSpace(Head(cs)) THEN TrimLeft(Tail(cs)) ELSE cs

RECURSIVE TrimRight(_)
TrimRight(cs) ==
    IF cs # <<>> /\ IsSpace(cs[Len(cs)]) THEN TrimRight(SubSeq(cs, 1, Len(cs) - 1)) ELSE cs

Trim(cs) == TrimRight(TrimLeft(cs))

\* String.prototype.split(sep) with a one-character separator
RECURSIVE Split(_, _)
Split(cs, sep) ==
    LET hits == {i \in 1..Len(cs) : cs[i] = sep}
    IN  IF hits = {} THEN <<cs>>
        ELSE LET i == CHOOSE x \in hits : \A y \in hits : x <= y
             IN  <<SubSeq(cs, 1, i - 1)>> \o Split(SubSeq(cs, i + 1, Len(cs)), sep)

\* .replace(/^"|"$/g, ''): a quote at the start and a quote at the end are removed
StripEdgeQuotes(cs) ==
    LET a == IF cs # <<>> /\ Head(cs) = "\"" THEN Tail(cs) ELSE cs
    IN  IF a # <<>> /\ a[Len(a)] = "\"" THEN SubSeq(a, 1, Len(a) - 1) ELSE a

\* the loop of parseCSVLine from character i on: result, current and inQuotes are its
\* three locals
RECURSIVE ParseLineFrom(_, _, _, _, _)
ParseLineFrom(line, i, result, current, inQuotes) ==
    IF i > Len(line) THEN Append(result, current)
    ELSE IF line[i] = "\"" THEN ParseLineFrom(line, i + 1, result, current, ~inQuotes)
    ELSE IF line[i] = "," /\ ~inQuotes
         THEN ParseLineFrom(line, i + 1, Append(result, current), <<>>, inQuotes)
    ELSE ParseLineFrom(line, i + 1, result, Append(current, line[i]), inQuotes)

\* parseCSVLine splitting at every comma, quoted or not
parseCSVLineUnquoted(line) == Split(line, ",")

\* parseCSVLine(line), identical in part_000, part_001 and generate-static.js
parseCSVLine(line) == ParseLineFrom(line, 1, <<>>, <<>>, FALSE)

\* the header names: lines[0].split(',').map(h => h.trim().replace(/^"|"$/g, ''))
HeaderNames(line) ==
    LET parts == Split(line, ",")
    IN  [i \in 1..Len(parts) |-> StripEdgeQuotes(Trim(parts[i]))]

\* the product built by headers.forEach: a later header of the same name overwrites the
\* value stored by an earlier one
ZipProduct(headers, values) ==
    [h \in {headers[i] : i \in 1..Len(headers)} |->
        LET last == CHOOSE i \in 1..Len(headers) :
                        headers[i] = h /\ \A j \in 1..Len(headers) : headers[j] = h => j <= i
        IN  IF last <= Len(values) /\ values[last] # <<>>
            THEN StripEdgeQuotes(Trim(values[last]))
            ELSE <<>>]

\* the loop over lines[1..] of parseCSVData
RECURSIVE ParseDataLines(_, _, _)
ParseDataLines(headers, lines, i) ==
    IF i > Len(lines) THEN <<>>
    ELSE IF Trim(lines[i]) = <<>> THEN ParseDataLines(headers, lines, i + 1)
    ELSE <<ZipProduct(headers, parseCSVLine(lines[i]))>> \o ParseDataLines(headers, lines, i + 1)

\* the values of the data lines: what parseCSVLine returns for each line that is not blank
RECURSIVE ParseValues(_, _)
ParseValues(lines, i) ==
    IF i > Len(lines) THEN <<>>
    ELSE IF Trim(lines[i]) = <<>> THEN ParseValues(lines, i + 1)
    ELSE <<parseCSVLine(lines[i])>> \o ParseValues(lines, i + 1)

\* parseCSVData(csvText): the header names, the values and the products.  part_001 returns early on
\* an empty text or a text of one line, leaving productsData as the constructor set it, []
parseCSVData(text) ==
    LET lines == Split(Trim(text), "\n")
        headers == HeaderNames(lines[1])
    IN  [headers |-> headers, values |-> ParseValues(lines, 2),
         products |-> ParseDataLines(headers, lines, 2)]

\* parseCSVData of part_001: it returns before the header is read when the text is empty
\* or has one line, and productsData stays as the constructor set it
parseCSVDataGuarded(text) ==
    IF Trim(text) = <<>> \/ Len(Split(Trim(text), "\n")) < 2 THEN NoParse
    ELSE parseCSVData(text)

\* product[name] of a parsed product: undefined when the catalog has no such column
Field(product, name) == IF name \in DOMAIN product THEN Str(product[name]) ELSE Undef

\* the columns the generators read
AsProduct(product) ==
    [link |-> Field(product, <<"l", "i", "n", "k">>),
     affiliate_url |-> Field(product, <<"a", "f", "f", "i", "l", "i", "a", "t", "e", "_", "u", "r", "l">>),
     price |-> Field(product, <<"p", "r", "i", "c", "e">>),
     last_updated |-> Field(product, <<"l", "a", "s", "t", "_", "u", "p", "d", "a", "t", "e", "d">>),
     output_wattage |-> Field(product, <<"o", "u", "t", "p", "u", "t", "_", "w", "a", "t", "t", "a", "g", "e">>),
     product_key |-> Field(product, <<"p", "r", "o", "d", "u", "c", "t", "_", "k", "e", "y">>),
     condition |-> Field(product, <<"c", "o", "n", "d", "i", "t", "i", "o", "n">>),
     battery_capacity |-> Field(product, <<"b", "a", "t", "t", "e", "r", "y", "_", "c", "a", "p", "a", "c", "i", "t", "y">>),
     fuel_type |-> Field(product, <<"f", "u", "e", "l", "_", "t", "y", "p", "e">>)]

AsProducts(products) == [i \in 1..Len(products) |-> AsProduct(products[i])]

-----------------------------------------------------------------------------
(* Reconciliation *)

\* a === b
StrictEq(a, b) == a.t # "NaN" /\ a = b

\* index of the element Array.prototype.find returns: the first one whose link equals
\* one of the keys; 0 when there is none
FindByLink(priceData, keys) ==
    LET hits == {j \in 1..Len(priceData) : \E key \in keys : StrictEq(priceData[j].link, key)}
    IN  IF hits = {} THEN 0 ELSE CHOOSE j \in hits : \A k \in hits : j <= k

\* the test guarding the overwrite: matchingPriceEntry.price && price !== "N/A"
FeedPriceAccepted(price) == Truthy(price) /\ price # Str(NA)

MergeEntry(product, entry) ==
    [product EXCEPT !.price = entry.price, !.last_updated = entry.last_updated]

\* updateProductPrices overwriting on every match, whatever the entry's price
updateProductPricesUnchecked(products, priceData) ==
    [i \in 1..Len(products) |->
        LET j == FindByLink(priceData, {products[i].link})
        IN  IF j # 0 THEN MergeEntry(products[i], priceData[j]) ELSE products[i]]

\* StaticSiteGenerator.updateProductPrices (part_000 and part_001): the products after
\* the forEach; the same forEach counts into matchedCount and updatedCount, below
updateProductPrices(products, priceData) ==
    [i \in 1..Len(products) |->
        LET j == FindByLink(priceData, {products[i].link})
        IN  IF j # 0 /\ FeedPriceAccepted(priceData[j].price)
            THEN MergeEntry(products[i], priceData[j])
            ELSE products[i]]

\* the counters updateProductPrices logs
matchedCount(products, priceData) ==
    Cardinality({i \in 1..Len(products) : FindByLink(priceData, {products[i].link}) # 0})

updatedCount(products, priceData) ==
    Cardinality({i \in 1..Len(products) :
        LET j == FindByLink(priceData, {products[i].link})
        IN  j # 0 /\ FeedPriceAccepted(priceData[j].price)})

\* a null element of the price feed: reading its link throws a TypeError
NullEntry == [link |-> Null, price |-> Null, last_updated |-> Null]

\* priceData.find throws for this product: it comes to a null element before it comes to
\* an entry of the product's link
FindThrows(priceData, product) ==
    \E j \in 1..Len(priceData) :
        /\ priceData[j] = NullEntry
        /\ \A k \in 1..(j - 1) :
              priceData[k] # NullEntry /\ ~StrictEq(priceData[k].link, product.link)

\* updateProductPrices on a feed with null elements: the forEach has overwritten the
\* products in front of the one whose find throws, and the throw leaves the function
\* before the counters are logged
updateProductPricesUntilThrow(products, priceData) ==
    LET throwers == {i \in 1..Len(products) : FindThrows(priceData, products[i])}
        first == IF throwers = {} THEN Len(products) + 1
                 ELSE CHOOSE i \in throwers : \A k \in throwers : i <= k
        updated == updateProductPrices(products, priceData)
    IN  [threw |-> throwers # {},
         products |-> [i \in 1..Len(products) |->
                          IF i < first THEN updated[i] ELSE products[i]]]

\* the price-merge loop of generateStaticSite in generate-static.js
mergeStaticPrices(products, priceData) ==
    [i \in 1..Len(products) |->
        LET j == FindByLink(priceData, {products[i].link, products[i].affiliate_url})
        IN  IF j # 0 /\ FeedPriceAccepted(priceData[j].price)
            THEN MergeEntry(products[i], priceData[j])
            ELSE products[i]]

-----------------------------------------------------------------------------
(* Rendering into the template *)

PreviousOutput == <<Tok("previous index.html")>>

\* the minimal error page part_001 writes
ErrorPage == <<Tok("<h1>Build Error</h1>")>>

\* text.replace(pattern, replacement) with a string pattern: the first occurrence only
ReplaceFirst(doc, kind, tok) ==
    LET hits == {i \in 1..Len(doc) : doc[i].k = kind}
    IN  IF hits = {} THEN doc
        ELSE LET i == CHOOSE x \in hits : \A y \in hits : x <= y
             IN  [doc EXCEPT ![i] = tok]

\* text.replace(pattern, '') with a string pattern
RemoveFirst(doc, kind) ==
    LET hits == {i \in 1..Len(doc) : doc[i].k = kind}
    IN  IF hits = {} THEN doc
        ELSE LET i == CHOOSE x \in hits : \A y \in hits : x <= y
             IN  SubSeq(doc, 1, i - 1) \o SubSeq(doc, i + 1, Len(doc))

\* the data attributes written into every row by part_000, part_001 and
\* generate-static.js
BuildRowAttributes ==
    {"data-product-key", "data-product-type", "data-condition", "data-capacity",
     "data-wattage", "data-fuel-type", "data-engine-type", "data-brand"}

\* one <tr class="generator">: generateTableRows of part_000 / part_001
TableRow(product) ==
    [attrs |-> BuildRowAttributes,
     key |-> ToChars(OrElse(product.product_key, Str(<<>>))),
     productType |-> determineProductType(product.output_wattage),
     condition |-> ConditionAttribute(product.condition),
     capacity |-> ToChars(OrElse(product.battery_capacity, Str(<<"0">>))),
     wattage |-> ToChars(OrElse(product.output_wattage, Str(<<"0">>))),
     fuelType |-> FuelTypeAttribute(product.fuel_type),
     brand |-> extractBrandFromLink(BrandText(product)),
     price |-> formatPrice(product.price),
     ppw |-> calculatePricePerWatt(product).text]

\* generateTableRows emitting the rows last product first
generateTableRowsReversed(products) ==
    [i \in 1..Len(products) |-> TableRow(products[Len(products) + 1 - i])]

\* StaticSiteGenerator.generateTableRows: this.productsData.map(...)
generateTableRows(products) == [i \in 1..Len(products) |-> TableRow(products[i])]

\* one row of the products.forEach of generate-static.js
StaticRow(product) ==
    LET price == formatPrice(product.price)
        wattage == OrElse(product.output_wattage, Str(<<"0">>))
    IN  [attrs |-> BuildRowAttributes,
         key |-> ToChars(OrElse(product.product_key, Str(<<>>))),
         productType |-> determineProductType(wattage),
         condition |-> ConditionAttribute(product.condition),
         capacity |-> ToChars(OrElse(product.battery_capacity, Str(<<"0">>))),
         wattage |-> ToChars(wattage),
         fuelType |-> FuelTypeAttribute(product.fuel_type),
         brand |-> extractBrandFromLink(BrandText(product)),
         price |-> price,
         ppw |-> calculatePricePerWattStatic(price, wattage).text]

StaticRows(products) == [i \in 1..Len(products) |-> StaticRow(products[i])]

\* validPriceCount of generateStats
StatsValidPriceCount(products) ==
    Cardinality({i \in 1..Len(products) :
        LET price == products[i].price
        IN  /\ Truthy(price)
            /\ price \notin {Str(<<"0">>), Str(<<>>), Str(NA)}
            /\ GtZero(ParseFloatChars(Strip(ToChars(price), {"$", ","})))})

\* validPriceCount of generate-static.js
StaticValidPriceCount(products) ==
    Cardinality({i \in 1..Len(products) : formatPrice(products[i].price) # PriceUnavailable})

\* the three replacements of build (part_000 lines 292-295, part_001 lines 418-421);
\* generateStats writes the date and time of the run, clock, in front of the counts
BuildHtml(tpl, products, clock) ==
    LET a == ReplaceFirst(tpl, "{{TABLE_ROWS}}",
                 [Tok("rows") EXCEPT !.rows = generateTableRows(products)])
        b == ReplaceFirst(a, "{{LAST_UPDATED_INFO}}",
                 [Tok("stats") EXCEPT !.total = Len(products),
                                      !.priced = StatsValidPriceCount(products),
                                      !.time = clock])
    IN  ReplaceFirst(b, "{{PRODUCT_COUNT}}", [Tok("count") EXCEPT !.total = Len(products)])

\* the replacements of generate-static.js (lines 248-256); lastUpdated is the date and
\* time of the run, clock
StaticHtml(tpl, products, clock) ==
    LET a == ReplaceFirst(tpl, "<!-- PRODUCT_DATA_PLACEHOLDER -->",
                 [Tok("rows") EXCEPT !.rows = StaticRows(products)])
        b == ReplaceFirst(a, "<!-- LAST_UPDATED_PLACEHOLDER -->", [Tok("lastUpdated") EXCEPT !.time = clock])
        c == ReplaceFirst(b, "<!-- PRODUCT_COUNT_PLACEHOLDER -->",
                 [Tok("count") EXCEPT !.total = Len(products),
                                      !.priced = StaticValidPriceCount(products)])
    IN  RemoveFirst(c, "<div id=\"loading\">")

-----------------------------------------------------------------------------
(* The builds that fetch the catalog and the price feed *)

MaxProducts == 2
MaxFeed == 2

L1 == Str(<<"L", "1">>)
L2 == Str(<<"L", "2">>)
A1 == Str(<<"A", "1">>)
T0 == Str(<<"T", "0">>)
T1 == Str(<<"T", "1">>)
T2 == Str(<<"T", "2">>)

\* catalog rows as parseCSVData yields them: every field is a string, '' when missing
ProductPool ==
    { [link |-> L1, affiliate_url |-> A1, price |-> Str(<<"$", "1", "0", "0">>),
       last_updated |-> T0, output_wattage |-> Str(<<"8", "0", "0">>),
       product_key |-> Str(<<"k", "1">>), condition |-> Str(<<"N", "e", "w">>),
       battery_capacity |-> Str(<<"7", "6", "8">>), fuel_type |-> Str(<<"S", "o", "l", "a", "r">>)],
      [link |-> L2, affiliate_url |-> Str(<<>>), price |-> Str(<<>>),
       last_updated |-> Str(<<>>), output_wattage |-> Str(<<"0">>),
       product_key |-> Str(<<>>), condition |-> Str(<<>>),
       battery_capacity |-> Str(<<>>), fuel_type |-> Str(<<>>)],
      [link |-> A1, affiliate_url |-> Str(<<>>), price |-> Str(<<"1", ",", "2", "9", "9", ".", "5">>),
       last_updated |-> T0, output_wattage |-> Str(<<"1", "5", "0", "1">>),
       product_key |-> Str(<<"k", "3">>), condition |-> Str(<<>>),
       battery_capacity |-> Str(<<>>), fuel_type |-> Str(<<"G", "a", "s">>)] }

\* entries of prices.json: link, price, last_updated
FeedPool ==
    { [link |-> L1, price |-> pr, last_updated |-> T1] :
          pr \in {Num(12000), Str(NA), Null, Num(0), Str(<<>>), Undef} }
    \cup { [link |-> A1, price |-> Num(5000), last_updated |-> T2] }

\* catalog rows whose price text starts with "$" and names no positive amount
OddPricePool ==
    { [link |-> L2, affiliate_url |-> Str(<<>>), price |-> pr,
       last_updated |-> Str(<<>>), output_wattage |-> Str(<<"5", "0", "0">>),
       product_key |-> Str(<<"k", "4">>), condition |-> Str(<<"U", "s", "e", "d">>),
       battery_capacity |-> Str(<<>>), fuel_type |-> Str(<<>>)] :
          pr \in {Str(<<"$", "0">>), Str(<<"$", "a", "b", "c">>)} }

\* the catalogs: any rows of ProductPool, and one row of OddPricePool alone
Catalogs ==
    UNION {[1..n -> ProductPool] : n \in 0..MaxProducts}
    \cup { <<p>> : p \in OddPricePool }
Feeds == UNION {[1..n -> FeedPool] : n \in 0..MaxFeed}

BraceTemplate ==
    <<Tok("<html>"), Tok("{{TABLE_ROWS}}"), Tok("{{LAST_UPDATED_INFO}}"), Tok("{{PRODUCT_COUNT}}")>>
CommentTemplate ==
    <<Tok("<div id=\"loading\">"), Tok("<!-- PRODUCT_DATA_PLACEHOLDER -->"),
      Tok("<!-- LAST_UPDATED_PLACEHOLDER -->"), Tok("<!-- PRODUCT_COUNT_PLACEHOLDER -->")>>
\* a template of another version: the row anchor is gone
NoRowsTemplate ==
    <<Tok("<html>"), Tok("{{LAST_UPDATED_INFO}}"), Tok("<!-- LAST_UPDATED_PLACEHOLDER -->")>>

BuildTemplates == {BraceTemplate, CommentTemplate, NoRowsTemplate, NoFile}

BuildGens == {"part_000", "part_001", "static"}

Init ==
    /\ gen \in BuildGens
    /\ pc = "start"
    /\ catalog = <<>>
    /\ feed = <<>>
    /\ template \in BuildTemplates
    /\ productsData = <<>>
    /\ output = PreviousOutput
    /\ firstOut = NoFile
    /\ status = "none" /\ csvFetch = "none" /\ feedFetch = "none" /\ runs = 0
    /\ dIn = NoInput
    /\ dOut = NothingDerived
    /\ csvText = AnyCsv
    /\ parsed = NoParse
    /\ reported = NothingReported /\ priceTable = NoTable

OthersUnchanged ==
    UNCHANGED <<gen, template, runs, firstOut, dIn, dOut, csvText, priceTable>>

\* what parseCSVData makes of the fetched text
Parsed ==
    IF csvText = AnyCsv THEN NoParse
    ELSE IF gen = "part_001" THEN parseCSVDataGuarded(csvText)
    ELSE parseCSVData(csvText)

\* the catalogs the fetched text can hold
CatalogChoices ==
    IF csvText = AnyCsv THEN Catalogs ELSE {AsProducts(Parsed.products)}

\* price feeds that hold a null element next to entries with a price
UnreadableFeeds ==
    LET priced == {e \in FeedPool : e.price.t = "number" /\ e.price.n > 0}
    IN  {f \in UNION {[1..n -> priced \cup {NullEntry}] : n \in 1..MaxFeed} :
            \E i \in 1..Len(f) : f[i] = NullEntry}

UnreadableFeedChoices == IF csvText = AnyCsv THEN UnreadableFeeds ELSE {}

\* the price feeds fetched next to it; no product of a spelled-out text has a link of
\* FeedPool, so the feed is taken empty there
FeedChoices == IF csvText = AnyCsv THEN Feeds ELSE {<<>>}

\* build() up to "await this.fetchData(this.pricesUrl)": the catalog fetch, parseCSVData
\* and the checks of part_001; a throw ends in the catch block.  cat is the catalog as
\* parseCSVData yields it.
FetchCatalog ==
    /\ gen \in {"part_000", "part_001"}
    /\ pc = "start"
    /\ \E r \in {"ok", "error"} :
       \E cat \in (IF r = "ok" THEN CatalogChoices ELSE {<<>>}) :
         /\ csvFetch' = r
         /\ catalog' = cat
         /\ parsed' = IF r = "ok" THEN Parsed ELSE NoParse
         /\ IF r = "error" \/ (gen = "part_001" /\ cat = <<>>)
            THEN /\ pc' = "failed"
                 /\ status' = "error"
                 /\ output' = IF gen = "part_001" THEN ErrorPage ELSE output
                 /\ UNCHANGED productsData
            ELSE /\ pc' = "fetchPrices"
                 /\ productsData' = cat
                 /\ UNCHANGED <<status, output>>
    /\ UNCHANGED <<feedFetch, feed, reported>>
    /\ OthersUnchanged

\* the outcome of template reading, row generation, replacement and writing
BuildWrite(products) ==
    IF template = NoFile \/ (gen = "part_001" /\ (template = <<>> \/ products = <<>>))
    THEN [pc |-> "failed", status |-> "error",
          output |-> IF gen = "part_001" THEN ErrorPage ELSE output]
    ELSE [pc |-> "done", status |-> "success", output |-> BuildHtml(template, products, runs + 1)]

\* build() from the price fetch to the end: a failed fetch or parse of the feed, and a
\* throw of updateProductPrices (prices.json is no array: priceData.find is no function,
\* nothing has been overwritten; or it holds a null element), is caught by the inner try
\* and the build goes on with the products as they are.  pd is the parsed prices.json.
FetchPricesAndBuild ==
    /\ gen \in {"part_000", "part_001"}
    /\ pc = "fetchPrices"
    /\ \E r \in {"ok", "error", "badjson", "empty", "notarray", "unreadable"} :
       \E pd \in (CASE r = "ok" -> FeedChoices
                    [] r = "unreadable" -> UnreadableFeedChoices
                    [] OTHER -> {<<>>}) :
         LET partly == updateProductPricesUntilThrow(productsData, pd)
             products == CASE r = "ok" -> updateProductPrices(productsData, pd)
                           [] r = "unreadable" -> partly.products
                           [] OTHER -> productsData
             res == BuildWrite(products)
         IN  /\ feedFetch' = r
             /\ feed' = pd
             /\ productsData' = products
             /\ reported' = IF r = "ok" \/ (r = "unreadable" /\ ~partly.threw)
                            THEN [logged |-> TRUE,
                                  matchedCount |-> matchedCount(productsData, pd),
                                  updatedCount |-> updatedCount(productsData, pd)]
                            ELSE reported
             /\ pc' = res.pc
             /\ status' = res.status
             /\ output' = res.output
    /\ UNCHANGED <<csvFetch, catalog, parsed>>
    /\ OthersUnchanged

\* generateStaticSite of generate-static.js: one try block around Promise.all of both
\* fetches, JSON.parse, the merge, the template and the write; the catch only logs
StaticGenerate ==
    /\ gen = "static"
    /\ pc = "start"
    /\ \E rc \in {"ok", "error"}, rf \in {"ok", "error", "badjson"} :
       \E cat \in (IF rc = "ok" THEN CatalogChoices ELSE {<<>>}) :
       \E pd \in (IF rf = "ok" THEN FeedChoices ELSE {<<>>}) :
         /\ csvFetch' = rc
         /\ feedFetch' = rf
         /\ parsed' = IF rc = "ok" /\ rf # "error" THEN Parsed ELSE NoParse
         /\ catalog' = cat
         /\ feed' = pd
         /\ IF rc = "ok" /\ rf = "ok"
            THEN /\ productsData' = mergeStaticPrices(cat, pd)
                 /\ IF template # NoFile
                    THEN /\ output' = StaticHtml(template, productsData', runs + 1)
                         /\ status' = "success"
                         /\ pc' = "done"
                    ELSE /\ status' = "error"
                         /\ pc' = "failed"
                         /\ UNCHANGED output
            ELSE /\ productsData' = IF rc = "ok" /\ rf = "badjson" THEN cat ELSE <<>>
                 /\ status' = "error"
                 /\ pc' = "failed"
                 /\ UNCHANGED output
    /\ UNCHANGED reported
    /\ OthersUnchanged

Next == FetchCatalog \/ FetchPricesAndBuild \/ StaticGenerate

Spec == Init /\ [][Next]_vars

\* the same builds on a spelled-out catalog text
MaxCsvLen == 4
CsvAlphabet == {"a", ",", "\"", "\n", " "}
CsvTexts == UNION {[1..n -> CsvAlphabet] : n \in 0..MaxCsvLen}

CsvInit ==
    /\ gen \in BuildGens
    /\ pc = "start"
    /\ csvText \in CsvTexts
    /\ parsed = NoParse
    /\ reported = NothingReported /\ priceTable = NoTable
    /\ catalog = <<>>
    /\ feed = <<>>
    /\ template = (IF gen = "static" THEN CommentTemplate ELSE BraceTemplate)
    /\ productsData = <<>>
    /\ output = PreviousOutput
    /\ firstOut = NoFile
    /\ status = "none" /\ csvFetch = "none" /\ feedFetch = "none" /\ runs = 0
    /\ dIn = NoInput
    /\ dOut = NothingDerived

SpecCsv == CsvInit /\ [][Next]_vars

-----------------------------------------------------------------------------
(* The generators that rewrite an existing page: both variants of          *)
(* generate-static-site.js and update-html.js.  The page is a sequence of  *)
(* tokens; each element the generators look for is one token.              *)

MaxRuns == 3

SiteGens == {"site1", "site2", "update"}

HeadClose == Tok("</head>")
BodyClose == Tok("</body>")
TBody(rows) == [Tok("<tbody id=\"powerprices-body\" lang=\"en\">") EXCEPT !.rows = rows]
\* total is the time shown; 0 stands for the empty span
TimestampSpan(t) == [Tok("<span id=\"update-timestamp\">") EXCEPT !.total = t]
CountSpan(n) == [Tok("<span id=\"product-count\">") EXCEPT !.priced = n]
StaticComment(t) ==
    [Tok("<!-- This page was statically generated with EcommerceAPI data. -->") EXCEPT !.total = t]
DynamicScript ==
    Tok("<script>document.addEventListener('DOMContentLoaded', function() { fetch('https://raw.githubusercontent.com/Bernardkinuthia/price-comparison-site/main/products.json')</script>")
FilterScript ==
    Tok("<script>document.addEventListener('DOMContentLoaded', function() { filterTable()</script>")
SortScript == Tok("<script>function sortTable(columnIndex)</script>")

IsScript(tok) == tok.k \in {DynamicScript.k, FilterScript.k, SortScript.k}
StartsWithDOMContentLoaded(tok) == tok.k \in {DynamicScript.k, FilterScript.k}

\* the text a pattern looks for between <script> and </script>
FetchRaw == "fetch('https://raw.githubusercontent.com"
FetchProductsJson == "fetch('https://raw.githubusercontent.com[^']*products.json')"
FetchRepoProductsJson ==
    "fetch('https://raw.githubusercontent.com/Bernardkinuthia/price-comparison-site/main/products.json')"

Contains(tok, sig) ==
    /\ tok.k = DynamicScript.k
    /\ sig \in {FetchRaw, FetchProductsJson, FetchRepoProductsJson}

\* a script pattern: dcl when it must start with the DOMContentLoaded handler
Pattern(dcl, sig) == [dcl |-> dcl, sig |-> sig]

\* scriptPatterns of the first variant, in order
Site1ScriptPatterns ==
    << Pattern(TRUE, "amazon"), Pattern(FALSE, "ProductAdvertising"), Pattern(FALSE, "paapi"),
       Pattern(FALSE, "aws"), Pattern(TRUE, FetchRaw), Pattern(FALSE, FetchProductsJson),
       Pattern(FALSE, "api_key") >>

Least(S) == CHOOSE x \in S : \A y \in S : x <= y

\* html.replace(/<script>[\s\S]*?SIG[\s\S]*?<\/script>/, ''): the leftmost match starts
\* at the first <script> that has the text somewhere after it and runs lazily to the
\* first </script> after that text
RemoveScriptMatch(doc, pat) ==
    LET ends(j) == {e \in j..Len(doc) : IsScript(doc[e])}
        sigs(i) == {j \in i..Len(doc) : Contains(doc[j], pat.sig) /\ ends(j) # {}}
        starts == {i \in 1..Len(doc) :
                      /\ IsScript(doc[i])
                      /\ pat.dcl => StartsWithDOMContentLoaded(doc[i])
                      /\ sigs(i) # {}}
    IN  IF starts = {} THEN doc
        ELSE LET i == Least(starts)
                 e == Least(ends(Least(sigs(i))))
             IN  SubSeq(doc, 1, i - 1) \o SubSeq(doc, e + 1, Len(doc))

RECURSIVE RemoveScripts(_, _)
RemoveScripts(doc, pats) ==
    IF pats = <<>> THEN doc
    ELSE RemoveScripts(RemoveScriptMatch(doc, Head(pats)), Tail(pats))

\* html.replace(/<tbody id="powerprices-body" lang="en">[\s\S]*?<\/tbody>/, ...)
ReplaceTBody(doc, rows) == ReplaceFirst(doc, TBody(<<>>).k, TBody(rows))

\* html.replace('</head>', `${staticComment}</head>`)
InsertStaticComment(doc, t) ==
    LET hits == {i \in 1..Len(doc) : doc[i].k = HeadClose.k}
    IN  IF hits = {} THEN doc
        ELSE SubSeq(doc, 1, Least(hits) - 1) \o <<StaticComment(t)>>
                 \o SubSeq(doc, Least(hits), Len(doc))

\* new Date(text): products.json carries ISO dates or text that is no date
ValidDate == "2024-01-01T00:00:00Z"
InvalidDate == "not a date"
DateTime(text) == IF text = ValidDate THEN 100 ELSE 0

\* entries of products.json as the first variant reads them
Site1Pool ==
    { [asin |-> "B01", price |-> Str(<<"$", "1", "0", "0">>), price_amount |-> Undef,
       running_wattage |-> Num(80000), last_updated |-> ""],
      [asin |-> "", price |-> Null, price_amount |-> Undef,
       running_wattage |-> Undef, last_updated |-> ValidDate],
      [asin |-> "B03", price |-> Num(5000), price_amount |-> Undef,
       running_wattage |-> Str(<<"0">>), last_updated |-> InvalidDate],
      [asin |-> "B04", price |-> Str(<<"$", "0">>), price_amount |-> Undef,
       running_wattage |-> Num(50000), last_updated |-> ""] }

\* the data attributes of a row of the first variant
Site1RowAttributes ==
    {"data-product-key", "data-running-wattage", "data-starting-wattage", "data-capacity",
     "data-fuel-type", "data-weight", "data-price"}

Site1Row(product, index) ==
    [attrs |-> Site1RowAttributes,
     key |-> IF product.asin # "" THEN product.asin ELSE "product-" \o ToString(index - 1),
     productType |-> "",
     wattage |-> ToChars(OrElse(product.running_wattage, Str(NA))),
     price |-> Site1Price(product).text,
     ppw |-> Site1PricePerWatt(product).text,
     dataPrice |-> IF Truthy(product.price) /\ GtZero(Site1Price(product).value)
                   THEN ToChars(Site1Price(product).value) ELSE <<"0">>]

Site1Rows(products) == [i \in 1..Len(products) |-> Site1Row(products[i], i)]

Site1SuccessfulPrices(products) ==
    Cardinality({i \in 1..Len(products) :
        Truthy(products[i].price) /\ GtZero(Site1Price(products[i]).value)})

\* the timestamp of the first variant: the run's clock, or the date of the first
\* product that carries one (the comparator leaves equal and invalid dates in place)
Site1Timestamp(products, clock) ==
    LET dated == {i \in 1..Len(products) : products[i].last_updated # ""}
    IN  IF dated = {} THEN [ok |-> TRUE, t |-> clock]
        ELSE LET text == products[Least(dated)].last_updated
             IN  [ok |-> text # InvalidDate, t |-> DateTime(text)]

\* all timestamp spans matched by the pattern: only the first is replaced
SetFirstTimestamp(doc, t) == ReplaceFirst(doc, TimestampSpan(0).k, TimestampSpan(t))

\* the try block of the first variant from the template on
Site1Html(tpl, products, clock) ==
    LET a == ReplaceTBody(tpl, Site1Rows(products))
        b == SetFirstTimestamp(a, Site1Timestamp(products, clock).t)
        c == ReplaceFirst(b, CountSpan(0).k, CountSpan(Site1SuccessfulPrices(products)))
        d == RemoveScripts(c, Site1ScriptPatterns)
    IN  InsertStaticComment(d, Site1Timestamp(products, clock).t)

\* the fallback page written by the catch block of the first variant
FallbackRow ==
    [attrs |-> {}, key |-> "", productType |-> "", wattage |-> <<>>, ppw |-> <<>>, dataPrice |-> <<>>,
     price |-> <<"E", "r", "r", "o", "r", " ", "l", "o", "a", "d", "i", "n", "g">>]
Site1Fallback(tpl, clock) ==
    LET a == ReplaceFirst(tpl, TBody(<<>>).k, [TBody(<<>>) EXCEPT !.rows = <<FallbackRow>>])
        b == SetFirstTimestamp(a, clock)
    IN  ReplaceFirst(b, CountSpan(0).k, CountSpan(0))

\* the fallback row is a message cell, not a tr.generator
IsGeneratorRow(row) == row # FallbackRow

W300 == Str(<<"3", "0", "0">>)
W600 == Str(<<"6", "0", "0">>)
W800 == Str(<<"8", "0", "0">>)
W1000 == Str(<<"1", "0", "0", "0">>)
W1800 == Str(<<"1", "8", "0", "0">>)
W2200 == Str(<<"2", "2", "0", "0">>)
W2400 == Str(<<"2", "4", "0", "0">>)
W7200 == Str(<<"7", "2", "0", "0">>)

ProductRow(key, productType, wattage, link) ==
    [key |-> key, productType |-> productType, wattage |-> wattage, link |-> link]

\* the fixed productRows table of the second variant
productRows ==
    << ProductRow("dji-power-1000-portable", "large_wattage", W2200, "https://amzn.to/4nuXr7n"),
       ProductRow("bluetti-ac70-768wh", "medium_wattage", W1000, "https://amzn.to/3Keq1LE"),
       ProductRow("ecoflow-river-2-pro", "small_wattage", W800, "https://amzn.to/47D9dI1"),
       ProductRow("anker-solix-f2000", "large_wattage", W2400, "https://amzn.to/3VvFERD"),
       ProductRow("jackery-5000-plus", "large_wattage", W7200, "https://amzn.to/46eaByB"),
       ProductRow("dabbsson-2000l", "large_wattage", W2200, "https://amzn.to/4pdQbyt"),
       ProductRow("zerokor-300w-portable", "small_wattage", W300, "https://amzn.to/4n0UDyW"),
       ProductRow("grecell-1000w-100w-solar-panel", "medium_wattage", W1000, "https://amzn.to/4niyXhi"),
       ProductRow("allpowers-600w-299wh", "small_wattage", W600, "https://amzn.to/4605svc"),
       ProductRow("pecron-e1000lfp", "large_wattage", W1800, "https://amzn.to/3JVcLeZ"),
       ProductRow("ampace-portable-power-station-andes-300-266wh-batt", "small_wattage", W300,
                  "https://amzn.to/4n2c1U1"),
       ProductRow("growatt-portable-power-station-infinity-2000-black", "large_wattage", W2400,
                  "https://amzn.to/4nMYAaD"),
       ProductRow("litheli-portable-power-station-eclair-1000-1800w-s", "large_wattage", W1800,
                  "https://amzn.to/4n88zY8") >>

\* entries of productsData.products as the second variant reads them
Site2Pool ==
    { [affiliate_link |-> "https://amzn.to/4nuXr7n", price_available |-> TRUE,
       price |-> Str(<<"$", "1", "9", "9", ".", "9", "9">>)],
      [affiliate_link |-> "https://amzn.to/47D9dI1", price_available |-> FALSE,
       price |-> Str(NA)],
      [affiliate_link |-> "https://amzn.to/47D9dI1", price_available |-> TRUE,
       price |-> Num(5000)] }

\* the data attributes of a row of the second variant
Site2RowAttributes ==
    {"data-product-key", "data-product-type", "data-condition", "data-capacity",
     "data-wattage", "data-fuel-type", "data-engine-type", "data-brand", "data-price"}

\* productsData.products?.find(p => p.affiliate_link === row.link)
Site2Find(products, row) ==
    LET hits == {i \in 1..Len(products) : products[i].affiliate_link = row.link}
    IN  IF hits = {} THEN <<>> ELSE <<products[Least(hits)]>>

\* product.price.replace throws when an available price is not a string
Site2Throws(products) ==
    \E i \in 1..Len(productRows) :
        LET found == Site2Find(products, productRows[i])
        IN  found # <<>> /\ found[1].price_available /\ ~IsString(found[1].price)

Site2Priced(products, row) ==
    LET found == Site2Find(products, row)
    IN  found # <<>> /\ found[1].price_available

Site2Row(products, row) ==
    LET product == Site2Find(products, row)[1]
    IN  [attrs |-> Site2RowAttributes,
         key |-> row.key,
         productType |-> row.productType,
         wattage |-> row.wattage.s,
         price |-> IF Site2Priced(products, row) THEN product.price.s ELSE NA,
         ppw |-> IF Site2Priced(products, row)
                 THEN Site2PricePerWatt(product, row.wattage).text ELSE NA,
         dataPrice |-> IF Site2Priced(products, row)
                       THEN ToChars(ParseFloatChars(KeepDigitsDot(product.price.s)))
                       ELSE <<"0">>]

Site2Rows(products) == [i \in 1..Len(productRows) |-> Site2Row(products, productRows[i])]

Site2SuccessfulPrices(products) ==
    Cardinality({i \in 1..Len(productRows) : Site2Priced(products, productRows[i])})

\* html.replace('<span id="update-timestamp"></span>', ...): only the empty span matches
FillEmptyTimestamp(doc, t) ==
    LET hits == {i \in 1..Len(doc) : doc[i] = TimestampSpan(0)}
    IN  IF hits = {} THEN doc ELSE [doc EXCEPT ![Least(hits)] = TimestampSpan(t)]

\* dynamicScriptRegex, and fetchScriptRegex only when the first does not match
Site2RemoveScript(doc) ==
    LET first == RemoveScriptMatch(doc, Pattern(TRUE, FetchRaw))
    IN  IF first # doc THEN first
        ELSE RemoveScriptMatch(doc, Pattern(FALSE, FetchRepoProductsJson))

\* the try block of the second variant from the rows on
Site2Html(tpl, products, clock) ==
    LET a == ReplaceTBody(tpl, Site2Rows(products))
        b == FillEmptyTimestamp(a, clock)
        c == ReplaceFirst(b, CountSpan(0).k, CountSpan(Site2SuccessfulPrices(products)))
    IN  Site2RemoveScript(c)

\* entries of priceData.prices: present is false for a null entry
UpdatePool ==
    { [key |-> "dji-power-1000-portable", present |-> TRUE, price |-> Num(19999)],
      [key |-> "ecoflow-river-2-pro", present |-> TRUE, price |-> Null],
      [key |-> "ecoflow-river-2-pro", present |-> TRUE, price |-> Num(0)],
      [key |-> "bluetti-ac70-768wh", present |-> FALSE, price |-> Undef] }

\* priceData.prices[productKey]
PriceInfo(prices, key) ==
    LET hits == {i \in 1..Len(prices) : prices[i].key = key /\ prices[i].present}
    IN  IF hits = {} THEN <<>> ELSE <<prices[Least(hits)]>>

\* formatPrice(price) of update-html.js
formatPriceUpdate(price) ==
    IF ~Truthy(price) \/ LeZero(ToNumber(price)) THEN NA
    ELSE IF IsNaN(ToNumber(price)) THEN <<"$", "N", "a", "N">>
    ELSE <<"$">> \o ToFixed2(ToNumber(price).n)

\* the body of $('tr.generator').each for one row
UpdateRow(row, prices) ==
    LET info == PriceInfo(prices, row.key)
    IN  IF row.key = "" \/ info = <<>> THEN row
        ELSE [row EXCEPT
                 !.dataPrice = ToChars(OrElse(info[1].price, Num(0))),
                 !.price = formatPriceUpdate(info[1].price),
                 !.ppw = calculatePricePerWattUpdate(info[1].price, ParseInt(Str(row.wattage))).text]

TotalProducts(doc) ==
    LET RECURSIVE Sum(_)
        Sum(i) == IF i = 0 THEN 0
                  ELSE Sum(i - 1) + Cardinality({j \in 1..Len(doc[i].rows) :
                                                    IsGeneratorRow(doc[i].rows[j])})
    IN  Sum(Len(doc))

\* updateHtmlWithPrices(htmlContent, priceData)
updateHtmlWithPrices(doc, prices, clock) ==
    [i \in 1..Len(doc) |->
        IF doc[i].k = TBody(<<>>).k
        THEN [doc[i] EXCEPT !.rows = [j \in 1..Len(doc[i].rows) |->
                                         IF IsGeneratorRow(doc[i].rows[j])
                                         THEN UpdateRow(doc[i].rows[j], prices)
                                         ELSE doc[i].rows[j]]]
        ELSE IF doc[i].k = TimestampSpan(0).k THEN TimestampSpan(clock)
        ELSE IF doc[i].k = CountSpan(0).k THEN CountSpan(TotalProducts(doc))
        ELSE doc[i]]

\* addSortingScript without the test for a script that mentions sortTable
addSortingScriptAlways(doc) ==
    LET hits == {i \in 1..Len(doc) : doc[i].k = BodyClose.k}
    IN  IF hits = {} THEN Append(doc, SortScript)
        ELSE SubSeq(doc, 1, Least(hits) - 1) \o <<SortScript>>
                 \o SubSeq(doc, Least(hits), Len(doc))

\* addSortingScript(htmlContent): appended to the body unless a script mentions sortTable
addSortingScript(doc) ==
    IF \E i \in 1..Len(doc) : doc[i].k = SortScript.k THEN doc
    ELSE LET hits == {i \in 1..Len(doc) : doc[i].k = BodyClose.k}
         IN  IF hits = {} THEN Append(doc, SortScript)
             ELSE SubSeq(doc, 1, Least(hits) - 1) \o <<SortScript>>
                      \o SubSeq(doc, Least(hits), Len(doc))

\* generateSummaryReport reads p.price of every entry: a null entry throws
SummaryThrows(prices) == \E i \in 1..Len(prices) : ~prices[i].present

\* index-template.html as first handed to the generators
PageTemplate ==
    <<HeadClose, TBody(<<>>), TimestampSpan(0), CountSpan(0), FilterScript, DynamicScript, BodyClose>>
TwoFetchTemplate ==
    <<HeadClose, TBody(<<>>), TimestampSpan(0), CountSpan(0), DynamicScript, SortScript,
      DynamicScript, BodyClose>>
\* a page of another version: no row container
NoTBodyTemplate == <<HeadClose, TimestampSpan(0), CountSpan(0), FilterScript, BodyClose>>

SiteTemplates == {PageTemplate, TwoFetchTemplate, NoTBodyTemplate, NoFile}

\* a page whose ecoflow-river-2-pro row shows a price of an earlier generation
PricedPage ==
    <<HeadClose,
      TBody(Site2Rows(<<[affiliate_link |-> "https://amzn.to/47D9dI1", price_available |-> TRUE,
                         price |-> Str(<<"$", "2", "9", "9", ".", "0", "0">>)]>>)),
      TimestampSpan(5), CountSpan(1), FilterScript, BodyClose>>

\* public/index.html as update-html.js first finds it
UpdatePages ==
    { <<HeadClose, TBody(Site2Rows(<<>>)), TimestampSpan(0), CountSpan(0), FilterScript, BodyClose>>,
      PricedPage,
      <<HeadClose, TBody(Site2Rows(<<>>)), TimestampSpan(5), CountSpan(13), SortScript>>,
      NoTBodyTemplate, NoFile }

DataFiles(pool) == UNION {[1..n -> pool] : n \in 0..MaxProducts}
DistinctKeys(prices) ==
    \A i, j \in 1..Len(prices) : prices[i].key = prices[j].key => i = j

SiteInit ==
    /\ gen \in SiteGens
    /\ pc = "start"
    /\ catalog \in (CASE gen = "site1" -> DataFiles(Site1Pool)
                      [] gen = "site2" -> DataFiles(Site2Pool)
                      [] OTHER -> {p \in DataFiles(UpdatePool) : DistinctKeys(p)})
    /\ csvFetch \in {"ok", "unparseable"}
    /\ template \in (IF gen = "update" THEN {NoFile} ELSE SiteTemplates)
    /\ output \in (IF gen = "update" THEN UpdatePages ELSE {PreviousOutput})
    /\ feed = <<>>
    /\ productsData = <<>>
    /\ firstOut = NoFile
    /\ status = "none" /\ feedFetch = "none" /\ runs = 0
    /\ dIn = NoInput
    /\ dOut = NothingDerived
    /\ csvText = AnyCsv
    /\ parsed = NoParse
    /\ reported = NothingReported /\ priceTable = NoTable

SiteUnchanged ==
    UNCHANGED <<gen, catalog, csvFetch, feed, feedFetch, dIn, dOut, csvText, parsed,
                reported, priceTable>>

\* a run that ended with process.exit(1); doc is what it left in the output file
RunFailed(doc) ==
    /\ output' = doc
    /\ status' = "error"
    /\ pc' = "failed"
    /\ UNCHANGED <<runs, firstOut>>

RunSucceeded(doc) ==
    /\ output' = doc
    /\ status' = "success"
    /\ pc' = "done"
    /\ runs' = runs + 1
    /\ firstOut' = IF runs = 0 THEN doc ELSE firstOut

\* generateStaticSite, first variant of generate-static-site.js; products.json that is
\* missing, empty, unparseable or no array is read as []
Site1Generate ==
    /\ gen = "site1"
    /\ pc = "start"
    /\ runs < MaxRuns
    /\ LET products == IF csvFetch = "ok" THEN catalog ELSE <<>>
           clock == runs + 1
       IN  /\ productsData' = products
           /\ IF template = NoFile THEN RunFailed(output)
              ELSE IF ~Site1Timestamp(products, clock).ok
                   THEN RunFailed(Site1Fallback(template, clock))
              ELSE RunSucceeded(Site1Html(template, products, clock))
    /\ UNCHANGED template
    /\ SiteUnchanged

\* generateStaticSite, second variant of generate-static-site.js
Site2Generate ==
    /\ gen = "site2"
    /\ pc = "start"
    /\ runs < MaxRuns
    /\ IF template = NoFile \/ csvFetch # "ok"
       THEN RunFailed(output) /\ UNCHANGED productsData
       ELSE /\ productsData' = catalog
            /\ IF Site2Throws(catalog) THEN RunFailed(output)
               ELSE RunSucceeded(Site2Html(template, catalog, runs + 1))
    /\ UNCHANGED template
    /\ SiteUnchanged

\* main of update-html.js: public/index.html is read and written in place; the page is
\* saved before generateSummaryReport runs
UpdateMain ==
    /\ gen = "update"
    /\ pc \in {"start", "done"}
    /\ runs < MaxRuns
    /\ IF csvFetch # "ok" \/ output = NoFile
       THEN RunFailed(output) /\ UNCHANGED productsData
       ELSE LET doc == addSortingScript(updateHtmlWithPrices(output, catalog, runs + 1))
            IN  /\ productsData' = catalog
                /\ IF SummaryThrows(catalog) THEN RunFailed(doc) ELSE RunSucceeded(doc)
    /\ UNCHANGED template
    /\ SiteUnchanged

\* the written index.html is taken as index-template.html for the next run
UseOutputAsTemplate ==
    /\ gen \in {"site1", "site2"}
    /\ pc = "done"
    /\ runs < MaxRuns
    /\ template' = output
    /\ pc' = "start"
    /\ UNCHANGED <<productsData, output, status, runs, firstOut>>
    /\ SiteUnchanged

SiteNext == Site1Generate \/ Site2Generate \/ UpdateMain \/ UseOutputAsTemplate

SpecSite == SiteInit /\ [][SiteNext]_vars

-----------------------------------------------------------------------------
(* Two runs of a generator on the same catalog, price feed and template *)

\* the products a generator renders from the catalog and the price feed
ReconciledProducts(g, products, priceData) ==
    CASE g \in {"part_000", "part_001"} -> updateProductPrices(products, priceData)
      [] g = "static" -> mergeStaticPrices(products, priceData)
      [] OTHER -> products

\* the document a run writes when every fetch succeeds and nothing throws; clock is the
\* time of the run
WrittenDocument(g, tpl, products, clock) ==
    CASE g \in {"part_000", "part_001"} -> BuildHtml(tpl, products, clock)
      [] g = "static" -> StaticHtml(tpl, products, clock)
      [] g = "site1" -> Site1Html(tpl, products, clock)
      [] g = "site2" -> Site2Html(tpl, products, clock)
      [] OTHER -> addSortingScript(updateHtmlWithPrices(tpl, products, clock))

\* the input files of a run that succeeds: template is the page update-html.js reads
SameInputsInit ==
    /\ gen \in BuildGens \cup SiteGens
    /\ pc = "start"
    /\ template \in (CASE gen \in {"part_000", "part_001"} -> {BraceTemplate}
                       [] gen = "static" -> {CommentTemplate}
                       [] gen = "update" -> {p \in UpdatePages : TBody(<<>>).k \in {p[i].k : i \in 1..Len(p)}}
                       [] OTHER -> {PageTemplate, TwoFetchTemplate})
    /\ catalog \in (CASE gen = "part_001" -> Catalogs \ {<<>>}
                      [] gen \in {"part_000", "static"} -> Catalogs
                      [] gen = "site1" -> {p \in DataFiles(Site1Pool) : Site1Timestamp(p, 0).ok}
                      [] gen = "site2" -> {p \in DataFiles(Site2Pool) : ~Site2Throws(p)}
                      [] OTHER -> {p \in DataFiles(UpdatePool) :
                                      DistinctKeys(p) /\ ~SummaryThrows(p)})
    /\ feed \in (IF gen \in BuildGens THEN Feeds ELSE {<<>>})
    /\ csvFetch = "ok"
    /\ feedFetch = (IF gen \in BuildGens THEN "ok" ELSE "none")
    /\ productsData = <<>>
    /\ output = PreviousOutput
    /\ firstOut = NoFile
    /\ status = "none" /\ runs = 0
    /\ dIn = NoInput
    /\ dOut = NothingDerived
    /\ csvText = AnyCsv
    /\ parsed = NoParse
    /\ reported = NothingReported /\ priceTable = NoTable

\* one more run of the generator on the same input files, at a later time
RunOnSameInputs ==
    /\ pc \in {"start", "done"}
    /\ runs < MaxRuns
    /\ LET products == ReconciledProducts(gen, catalog, feed)
           doc == WrittenDocument(gen, template, products, runs + 1)
       IN  /\ productsData' = products
           /\ reported' = IF gen \in {"part_000", "part_001"}
                          THEN [logged |-> TRUE,
                                matchedCount |-> matchedCount(catalog, feed),
                                updatedCount |-> updatedCount(catalog, feed)]
                          ELSE reported
           /\ RunSucceeded(doc)
    /\ UNCHANGED <<gen, catalog, feed, template, csvFetch, feedFetch, dIn, dOut, csvText,
                   parsed, priceTable>>

SpecSameInputs == SameInputsInit /\ [][RunOnSameInputs]_vars

(***************************************************************************)
(* fetch-amazon-prices.js: main, run again and again on data/prices.json   *)
(***************************************************************************)
\* what fetchPriceBatch can return for the batch
Responses == UNION { [1..n -> ItemPool] : n \in 0..MaxFeed }

FetchInit ==
    /\ gen = "fetch"
    /\ pc = "start"
    /\ catalog = ConfigProducts
    /\ priceTable = NoTable
    /\ feed = <<>>
    /\ template = NoFile /\ output = NoFile /\ firstOut = NoFile
    /\ productsData = <<>>
    /\ status = "none" /\ csvFetch = "none" /\ feedFetch = "none" /\ runs = 0
    /\ dIn = NoInput
    /\ dOut = NothingDerived
    /\ csvText = AnyCsv
    /\ parsed = NoParse
    /\ reported = NothingReported

\* main: validateConfig or loadProductsConfig throws ("fatal"), or the one batch
\* of config.products is requested; fetchPriceBatch returns [] when the request
\* fails ("failed") and ItemsResult.Items otherwise; the table is saved
FetchMain ==
    /\ gen = "fetch"
    /\ pc \in {"start", "done"}
    /\ runs < MaxRuns
    /\ \E r \in {"ok", "failed", "fatal"} :
         \E items \in (IF r = "ok" THEN Responses ELSE {<<>>}) :
           /\ feedFetch' = r
           /\ feed' = items
           /\ IF r = "fatal"
              THEN /\ status' = "error"
                   /\ UNCHANGED <<priceTable, reported>>
              ELSE /\ status' = "success"
                   /\ priceTable' = ProcessItems(priceTable, items, catalog, runs + 1)
                   /\ reported' = [logged |-> TRUE,
                                   matchedCount |-> Len(catalog),
                                   updatedCount |-> successCount(items, catalog, runs + 1)]
    /\ pc' = "done"
    /\ runs' = runs + 1
    /\ UNCHANGED <<gen, catalog, template, productsData, output, csvFetch, firstOut,
                   dIn, dOut, csvText, parsed>>

SpecFetch == FetchInit /\ [][FetchMain]_vars

-----------------------------------------------------------------------------
(* Any of the generators *)

AllInit == Init \/ SiteInit

AllNext == Next \/ SiteNext

SpecAll == AllInit /\ [][AllNext]_vars

-----------------------------------------------------------------------------
(* Claims about the derivation functions (SpecDerive) *)

\* the numeric value of a wattage field in hundredths; 0 when empty or unparseable
WattValue(w) ==
    LET v == ParseFloat(w)
    IN  IF ~Truthy(w) \/ IsNaN(v) THEN 0 ELSE v.n

TierOf(h) ==
    IF h <= 500 * 100 THEN "small_wattage"
    ELSE IF h <= 1500 * 100 THEN "medium_wattage"
    ELSE "large_wattage"

\* C3: determineProductType classifies every wattage value w as small when w <= 500
\* (0, empty and unparseable included), medium when 500 < w <= 1500, large when w > 1500.
C3_TierOfEveryWattage ==
    pc \in {"typed", "formatted", "derived"}
        => dOut.productType = TierOf(WattValue(dIn.wattage))

\* the wattage of the input is 0, empty or unparseable
WattageAbsent(w) == WattValue(w) = 0

\* the wattage a computation reads: the product's field, or row.wattage of the fixed
\* table in the second generate-static-site.js variant
WattageRead(v) == IF v = "site2" THEN dOut.rowWattage ELSE dIn.wattage

\* C4: in every price-per-watt computation a wattage that is 0, empty or unparseable
\* yields "N/A" for any price, and price / wattage is evaluated only when wattage > 0.
C4_WattageGuard ==
    pc = "derived" =>
        \A v \in PpwVariants :
            /\ WattageAbsent(WattageRead(v)) => dOut.ppw[v].text = NA
            /\ dOut.ppw[v].divided => dOut.ppw[v].divisor > 0

\* C4 witness: a valid price with wattage "0" went through every computation
C4_Witness ==
    /\ pc = "derived"
    /\ dIn.price = Str(<<"$", "1", "9", "9", ".", "9", "9">>)
    /\ dIn.wattage = Str(<<"0">>)
    /\ \A v \in PpwVariants \ {"site2"} : dOut.ppw[v].text = NA

\* the amount a price stands for: NaN when it is no number
PriceAmount(price) ==
    CASE price.t = "number" -> price
      [] price.t = "string" -> ParseFloatChars(Strip(price.s, {"$", ","}))
      [] OTHER -> NaN

\* absent, sentinel, invalid, zero or negative
NoPrice(price) ==
    \/ price \in {Undef, Null, Str(<<>>), Str(NA)}
    \/ IsNaN(PriceAmount(price))
    \/ PriceAmount(price).n <= 0

FormatByPrecedence(price) ==
    IF NoPrice(price) THEN PriceUnavailable
    ELSE IF IsString(price) /\ StartsWith(price.s, "$") THEN price.s
    ELSE <<"$">> \o ToFixed2(PriceAmount(price).n)

\* C5: formatPrice applies, in this order of precedence: no valid price gives
\* "Price unavailable"; a $-prefixed string is returned unchanged; anything else gives
\* "$" and the amount with two decimals.
C5_FormatPrecedence ==
    pc \in {"formatted", "derived"} => dOut.formatted = FormatByPrecedence(dIn.price)

-----------------------------------------------------------------------------
(* Claims about the builds (Spec) *)

\* a feed price that is present and none of "N/A", null, 0, ""
FeedPricePresent(price) == price \notin {Undef, Null, Num(0), Str(<<>>), Str(NA)}

\* key equality between a feed entry and a catalog product
KeyMatches(entry, product) ==
    entry.link = product.link \/ entry.link = product.affiliate_url

Reconciled == pc \in {"done", "failed"} /\ csvFetch = "ok" /\ Len(productsData) = Len(catalog)

\* C1: reconciliation changes a product's price and last_updated only when a feed entry
\* matches it and that entry's price is present and no sentinel; every other product
\* keeps its price and last_updated (and every product its other fields).
C1_PriceOnlyFromValidMatch ==
    Reconciled =>
        \A i \in 1..Len(catalog) :
            LET before == catalog[i]
                after == productsData[i]
                good == {j \in 1..Len(feed) :
                            KeyMatches(feed[j], before) /\ FeedPricePresent(feed[j].price)}
            IN  /\ after.link = before.link
                /\ after.affiliate_url = before.affiliate_url
                /\ after.output_wattage = before.output_wattage
                /\ \/ /\ after.price = before.price
                      /\ after.last_updated = before.last_updated
                   \/ /\ feedFetch \in {"ok", "unreadable"}
                      /\ \E j \in good : /\ after.price = feed[j].price
                                         /\ after.last_updated = feed[j].last_updated

\* C1 witness: one reconciliation overwrote a product from a valid entry and left
\* another product, matched by an entry with a sentinel price, as it was
C1_Witness ==
    /\ Reconciled /\ feedFetch = "ok"
    /\ \E i \in 1..Len(catalog) : productsData[i].price # catalog[i].price
    /\ \E k \in 1..Len(catalog) :
          /\ \E j \in 1..Len(feed) : /\ feed[j].link = catalog[k].link
                                     /\ ~FeedPricePresent(feed[j].price)
          /\ productsData[k] = catalog[k]

\* the template carries the three anchors of the generator that reads it
Anchors(g) ==
    IF g = "static"
    THEN {"<!-- PRODUCT_DATA_PLACEHOLDER -->", "<!-- LAST_UPDATED_PLACEHOLDER -->",
          "<!-- PRODUCT_COUNT_PLACEHOLDER -->"}
    ELSE {"{{TABLE_ROWS}}", "{{LAST_UPDATED_INFO}}", "{{PRODUCT_COUNT}}"}

Kinds(doc) == {doc[i].k : i \in 1..Len(doc)}

\* the rows of a written document
RowsOf(doc) ==
    LET hits == {i \in 1..Len(doc) : doc[i].k = "rows"}
    IN  IF hits = {} THEN <<>> ELSE doc[CHOOSE i \in hits : TRUE].rows

IsProductDocument(doc) == doc # NoFile /\ "rows" \in Kinds(doc)

\* the price cells a catalog gives when no feed price is merged
CatalogPriceCells(products) == [i \in 1..Len(products) |-> formatPrice(products[i].price)]

PriceCells(doc) == [i \in 1..Len(RowsOf(doc)) |-> RowsOf(doc)[i].price]

Finished == pc \in {"done", "failed"}

\* C2: when the price feed cannot be fetched or parsed and the catalog can, the build
\* still writes a product document with the catalog's prices; when the catalog fetch
\* fails, no product document is written.
C2_DegradeOnFeedFailure ==
    Finished =>
        /\ ( /\ csvFetch = "ok" /\ catalog # <<>>
             /\ feedFetch \in {"error", "badjson"}
             /\ template # NoFile /\ Anchors(gen) \subseteq Kinds(template) )
           => /\ status = "success"
              /\ IsProductDocument(output)
              /\ PriceCells(output) = CatalogPriceCells(catalog)
        /\ csvFetch = "error" => ~IsProductDocument(output)

\* C6: a feed entry whose key equals a product's affiliate_url (and not its link)
\* matches the product, and its valid price is merged.
C6_AffiliateKeyMatches ==
    (pc = "done" /\ feedFetch = "ok") =>
        \A i \in 1..Len(catalog), j \in 1..Len(feed) :
            ( /\ feed[j].link = catalog[i].affiliate_url
              /\ feed[j].link # catalog[i].link
              /\ FeedPricePresent(feed[j].price)
              /\ \A k \in 1..Len(feed) : KeyMatches(feed[k], catalog[i]) => feed[k] = feed[j] )
            => /\ productsData[i].price = feed[j].price
               /\ productsData[i].last_updated = feed[j].last_updated

FirstIndex(S) == CHOOSE j \in S : \A k \in S : j <= k

\* C7: with one entry keyed by the product's link and another keyed by its
\* affiliate_url, the entry matched on link supplies the merged price, whatever the
\* order of the two in the feed.
C7_LinkKeyFirst ==
    (pc = "done" /\ feedFetch = "ok") =>
        \A i \in 1..Len(catalog) :
            LET byLink == {j \in 1..Len(feed) : feed[j].link = catalog[i].link}
                byAffiliate == {j \in 1..Len(feed) :
                                   /\ feed[j].link = catalog[i].affiliate_url
                                   /\ feed[j].link # catalog[i].link}
            IN  ( /\ byLink # {} /\ byAffiliate # {}
                  /\ FeedPricePresent(feed[FirstIndex(byLink)].price) )
                => /\ productsData[i].price = feed[FirstIndex(byLink)].price
                   /\ productsData[i].last_updated = feed[FirstIndex(byLink)].last_updated

\* C9: a template that lacks a required anchor makes generation fail with an error, and
\* no document is written as a success.
C9_MissingAnchorFails ==
    ( /\ Finished /\ csvFetch = "ok" /\ feedFetch # "none"
      /\ template # NoFile
      /\ ~(Anchors(gen) \subseteq Kinds(template)) )
    => /\ status = "error"
       /\ output \in {PreviousOutput, ErrorPage}

\* C10: after a run that ends in a fatal error the output file is the previous output
\* or a labelled error document; a run that reports success has written one row for
\* every input product.
C10_NoSilentDataLoss ==
    Finished =>
        /\ status = "error" => output \in {PreviousOutput, ErrorPage}
        /\ status = "success" => Len(RowsOf(output)) = Len(catalog)

-----------------------------------------------------------------------------
(* Claims about re-running the generators on their own output (SpecSite) *)

RowCount(doc) == TotalProducts(doc)
ScriptCount(doc) == Cardinality({i \in 1..Len(doc) : IsScript(doc[i])})
CommentCount(doc) == Cardinality({i \in 1..Len(doc) : doc[i].k = StaticComment(0).k})

\* C8: after n >= 2 successful runs of a generator, each on the page the previous run
\* wrote, the page holds as many product rows, script elements and generator comments
\* as after the first run.
C8_RerunKeepsCounts ==
    (gen \in SiteGens /\ runs >= 2 /\ status = "success") =>
        /\ RowCount(output) = RowCount(firstOut)
        /\ ScriptCount(output) = ScriptCount(firstOut)
        /\ CommentCount(output) = CommentCount(firstOut)

-----------------------------------------------------------------------------
(* Claims about single records (SpecSite) *)

\* C11: no input record makes a generator abort: when the template and products.json
\* can be read, the run succeeds whatever the records hold, and the first variant
\* renders one row per record.
C11_NoRecordAborts ==
    ( /\ gen \in {"site1", "site2"} /\ pc \in {"done", "failed"}
      /\ template # NoFile /\ csvFetch = "ok" )
    => /\ status = "success"
       /\ (gen = "site1" /\ TBody(<<>>).k \in Kinds(template))
              => RowCount(output) = Len(catalog)

-----------------------------------------------------------------------------
(* Claims about the emitted rows (SpecAll) *)

\* the rows of the row container of a page written by a rewriting generator
TBodyRows(doc) ==
    LET hits == {i \in 1..Len(doc) : doc[i].k = TBody(<<>>).k}
    IN  IF hits = {} THEN <<>> ELSE doc[Least(hits)].rows

\* a finished first run that wrote its rows into the page
WroteRows ==
    /\ pc = "done" /\ status = "success"
    /\ IF gen \in BuildGens THEN "rows" \in Kinds(output)
       ELSE gen \in {"site1", "site2"} /\ runs = 1 /\ TBody(<<>>).k \in Kinds(output)

\* the products the first variant reads: [] when products.json cannot be parsed
Site1Input == IF csvFetch = "ok" THEN catalog ELSE <<>>

EmittedRows == IF gen \in BuildGens THEN RowsOf(output) ELSE TBodyRows(output)

\* the attributes every row has to carry
RequiredAttributes ==
    {"data-product-key", "data-product-type", "data-condition", "data-capacity",
     "data-wattage", "data-fuel-type", "data-brand"}

\* C13: every emitted row carries the product key, tier, condition (in lower case),
\* capacity, wattage, fuel type and brand attributes.
C13_RowAttributes ==
    WroteRows =>
        \A i \in 1..Len(EmittedRows) :
            /\ RequiredAttributes \subseteq EmittedRows[i].attrs
            /\ gen \in BuildGens
                  => EmittedRows[i].condition = ToLowerChars(EmittedRows[i].condition)

\* C14: within one run every emitted row has a non-empty product key and no two rows
\* have the same key.
C14_KeysPresentAndUnique ==
    WroteRows =>
        /\ \A i \in 1..Len(EmittedRows) :
              IF gen \in BuildGens THEN EmittedRows[i].key # <<>> ELSE EmittedRows[i].key # ""
        /\ \A i, j \in 1..Len(EmittedRows) :
              EmittedRows[i].key = EmittedRows[j].key => i = j

-----------------------------------------------------------------------------
(* Claims about catalog parsing (SpecCsv) *)

\* the lines of the catalog text
CsvLines == Split(Trim(csvText), "\n")

\* the header row
HeaderLine == CsvLines[1]

\* the data lines that are not blank, in line order
DataLines == SelectSeq(Tail(CsvLines), LAMBDA line : Trim(line) # <<>>)

\* parseCSVData has been called on the catalog text
CsvParsed ==
    /\ csvText # AnyCsv
    /\ csvFetch = "ok"
    /\ gen = "static" => feedFetch # "error"

\* the run is over and nothing but the catalog can have failed it
CsvRunEnded ==
    /\ CsvParsed
    /\ pc \in {"done", "failed"}
    /\ gen = "static" => feedFetch = "ok"

\* C15: a catalog of a non-empty header row and no data rows gives no products and the
\* run completes without error; a run fails exactly when the header row is absent or
\* empty.
C15_HeaderOnlyCatalog ==
    CsvRunEnded =>
        /\ (HeaderLine # <<>> /\ DataLines = <<>>)
               => (parsed.products = <<>> /\ status = "success")
        /\ status = "error" <=> HeaderLine = <<>>

\* quote mode in front of the i-th character of a line: off at the start of the line,
\* toggled by every double quote
QuoteMode(line, i) == Cardinality({j \in 1..(i - 1) : line[j] = "\""}) % 2 = 1

\* the commas of a line that lie outside quote mode
SplitCommas(line) == {i \in 1..Len(line) : line[i] = "," /\ ~QuoteMode(line, i)}

\* where the k-th field of a line begins and ends: just after the (k-1)-th and just
\* before the k-th comma outside quote mode
CutAt(line, k) ==
    LET cuts == SplitCommas(line) \cup {0, Len(line) + 1}
    IN  CHOOSE c \in cuts : Cardinality({d \in cuts : d < c}) = k

\* the k-th field of a line, the quote characters left out
FieldOfLine(line, k) ==
    SelectSeq(SubSeq(line, CutAt(line, k - 1) + 1, CutAt(line, k) - 1), LAMBDA c : c # "\"")

FieldCount(line) == Cardinality(SplitCommas(line)) + 1

\* the k-th product is the k-th data line zipped against the header names
ZippedAgainstHeader(k) ==
    LET product == parsed.products[k]
        line == DataLines[k]
    IN  /\ DOMAIN product = {parsed.headers[i] : i \in 1..Len(parsed.headers)}
        /\ \A i \in 1..Len(parsed.headers) :
              product[parsed.headers[i]] =
                  IF i <= FieldCount(line) THEN Trim(FieldOfLine(line, i)) ELSE <<>>

DistinctHeaders ==
    \A i, j \in 1..Len(parsed.headers) : parsed.headers[i] = parsed.headers[j] => i = j

HeaderRead == CsvParsed /\ (gen = "part_001" => Len(CsvLines) >= 2)

\* C17: every line of the catalog, the header line included, is split at exactly the
\* commas outside quote mode, so the header row and every data line yield one field more
\* than they have commas outside quote mode.
C17_SplitOutsideQuotes ==
    HeaderRead =>
        /\ Len(parsed.headers) = FieldCount(HeaderLine)
        /\ Len(parsed.values) = Len(DataLines)
        /\ \A k \in 1..Len(parsed.values) :
              /\ Len(parsed.values[k]) = FieldCount(DataLines[k])
              /\ \A i \in 1..Len(parsed.values[k]) :
                    parsed.values[k][i] = FieldOfLine(DataLines[k], i)

-----------------------------------------------------------------------------
(* Claims about the fuel type and brand attributes (SpecDerive) *)

\* the fuel vocabulary of the claim: the canonical values and their synonyms
FuelVocabulary ==
    { [key |-> <<"g", "a", "s", "o", "l", "i", "n", "e">>,
       value |-> <<"g", "a", "s", "o", "l", "i", "n", "e">>],
      [key |-> <<"g", "a", "s">>,
       value |-> <<"g", "a", "s", "o", "l", "i", "n", "e">>],
      [key |-> <<"d", "u", "a", "l", "_", "f", "u", "e", "l">>,
       value |-> <<"d", "u", "a", "l", "_", "f", "u", "e", "l">>],
      [key |-> <<"d", "u", "a", "l", "-", "f", "u", "e", "l">>,
       value |-> <<"d", "u", "a", "l", "_", "f", "u", "e", "l">>],
      [key |-> <<"d", "u", "a", "l", " ", "f", "u", "e", "l">>,
       value |-> <<"d", "u", "a", "l", "_", "f", "u", "e", "l">>],
      [key |-> <<"b", "a", "t", "t", "e", "r", "y">>,
       value |-> <<"b", "a", "t", "t", "e", "r", "y">>],
      [key |-> <<"e", "l", "e", "c", "t", "r", "i", "c">>,
       value |-> <<"b", "a", "t", "t", "e", "r", "y">>] }

\* the canonical value of a fuel type: by case-insensitive lookup, gasoline when the fuel
\* type is absent, empty or not in the vocabulary
CanonicalFuelType(fuel_type) ==
    LET text == IF fuel_type.t = "string" THEN ToLowerChars(fuel_type.s) ELSE <<>>
        hits == {e \in FuelVocabulary : e.key = text}
    IN  IF hits = {} THEN Gasoline ELSE (CHOOSE e \in hits : TRUE).value

\* C18: the data-fuel-type attribute is "gasoline" when fuel_type is empty, absent or not
\* in the vocabulary, and otherwise the canonical value of the synonym, looked up without
\* regard to case.
C18_FuelTypeNormalized ==
    (gen = "derive" /\ pc # "input") => dOut.fuelType = CanonicalFuelType(dIn.fuel_type)

\* the text the brand is looked for in: the affiliate text when present, else the link
BestText(product) ==
    IF product.affiliate_url.t = "string" /\ product.affiliate_url.s # <<>>
    THEN product.affiliate_url.s
    ELSE IF product.link.t = "string" THEN product.link.s ELSE <<>>

\* keyword occurs in text, letters compared without regard to case
OccursIn(keyword, text) ==
    \E at \in 0..(Len(text) - Len(keyword)) :
        \A i \in 1..Len(keyword) : ToLowerChar(text[at + i]) = ToLowerChar(keyword[i])

\* the entries of the brand table whose keyword occurs in the text
BrandMatches(text) == {i \in 1..Len(brandMap) : OccursIn(brandMap[i].key, text)}

\* C19: the brand of a row is the brand of the first keyword, in the declared order of
\* the brand table, that occurs case-insensitively in the affiliate text (the link when
\* there is no affiliate text), other_brand when none occurs, and always a value of the
\* table or other_brand.
C19_BrandByFirstKeyword ==
    (gen = "derive" /\ pc \notin {"input", "fueled"}) =>
        LET matches == BrandMatches(BestText(dIn))
        IN  /\ matches = {} => dOut.brand = "other_brand"
            /\ matches # {} =>
                  dOut.brand = brandMap[CHOOSE i \in matches : \A j \in matches : i <= j].value
            /\ dOut.brand \in {brandMap[i].value : i \in 1..Len(brandMap)} \cup {"other_brand"}

\* C19 witness: a text naming two brands, the later-declared first and in capitals, gets
\* the brand declared first
C19_Witness ==
    /\ gen = "derive" /\ pc \notin {"input", "fueled"}
    /\ dIn.affiliate_url = Str(<<"A", "n", "k", "e", "r", " ", "v", "s", " ", "H", "o", "n", "d", "a">>)
    /\ dOut.brand = "honda"

-----------------------------------------------------------------------------
(* Claims about the reconciliation counters (Spec) *)

\* the reconciliation has run over the catalog and the feed
ReconciliationRan == pc \in {"done", "failed"} /\ csvFetch = "ok" /\ feedFetch = "ok"

\* the products a feed entry matches
MatchedProducts ==
    {i \in 1..Len(catalog) : \E j \in 1..Len(feed) : feed[j].link = catalog[i].link}

\* the products the feed has overwritten: the first entry of their link has a price that
\* is present and no sentinel
OverwrittenProducts ==
    {i \in MatchedProducts :
        FeedPricePresent(
            feed[FirstIndex({j \in 1..Len(feed) : feed[j].link = catalog[i].link})].price)}

\* C20: after the reconciliation both counters are reported; matchedCount is the number
\* of products with a matching feed entry, updatedCount the number of products whose
\* price the feed has overwritten, and 0 <= updatedCount <= matchedCount <= number of
\* products.
C20_CountsReported ==
    ReconciliationRan =>
        /\ reported.logged
        /\ reported.matchedCount = Cardinality(MatchedProducts)
        /\ reported.updatedCount = Cardinality(OverwrittenProducts)
        /\ 0 <= reported.updatedCount
        /\ reported.updatedCount <= reported.matchedCount
        /\ reported.matchedCount <= Len(catalog)

-----------------------------------------------------------------------------
(* Claims about the document around the rewritten zones (SpecAll) *)

\* the four zones a generator may rewrite: the row container, the last-updated
\* indicator, the count indicator (as anchors of the template or as written), and the
\* dynamic-fetch script
ZoneKinds ==
    { "{{TABLE_ROWS}}", "<!-- PRODUCT_DATA_PLACEHOLDER -->", "rows", TBody(<<>>).k,
      "{{LAST_UPDATED_INFO}}", "<!-- LAST_UPDATED_PLACEHOLDER -->", "stats", "lastUpdated",
      TimestampSpan(0).k,
      "{{PRODUCT_COUNT}}", "<!-- PRODUCT_COUNT_PLACEHOLDER -->", "count", CountSpan(0).k,
      DynamicScript.k }

\* the document outside the four zones
OutsideZones(doc) == SelectSeq(doc, LAMBDA tok : tok.k \notin ZoneKinds)

\* the document a run starts from: update-html.js rewrites the page in place
RunTemplate == IF gen = "update" THEN output ELSE template

\* C21: a run that writes a page leaves every region outside the row container, the
\* last-updated indicator, the count indicator and the removed dynamic-fetch script as
\* it is in the template.
C21_FrameOutsideZones ==
    [][(status' = "success" /\ (pc # pc' \/ runs # runs'))
           => OutsideZones(output') = OutsideZones(RunTemplate)]_vars

-----------------------------------------------------------------------------
(* Claims about repeated runs on the same inputs (SpecSameInputs) *)

\* C22: two runs of the same generator on the same catalog, the same price feed and the
\* same template write the same document.
C22_SameInputsSameOutput == runs >= 2 => output = firstOut

-----------------------------------------------------------------------------
(* Claims about the removal of the dynamic-fetch script (SpecSite) *)

\* how many tokens of one kind a document holds
CountOf(doc, k) == Cardinality({i \in 1..Len(doc) : doc[i].k = k})

\* the rows generate-static-site.js puts into the row container
InsertedRows == IF gen = "site1" THEN Site1Rows(productsData) ELSE Site2Rows(productsData)

\* C23: the script removal of generate-static-site.js deletes only script elements that
\* hold a dynamic-fetch signature: every other script of the template (the filtering and
\* the sorting script) and every inserted product row is still in the written page.
C23_OnlyFetchScriptsRemoved ==
    (gen \in {"site1", "site2"} /\ pc = "done") =>
        /\ CountOf(output, FilterScript.k) = CountOf(template, FilterScript.k)
        /\ CountOf(output, SortScript.k) = CountOf(template, SortScript.k)
        /\ CountOf(template, TBody(<<>>).k) > 0 => TBodyRows(output) = InsertedRows

-----------------------------------------------------------------------------
(* Claims about a reconciliation that throws (Spec) *)

\* updateProductPrices was entered and left by a throw: the feed is no array, or it holds
\* an element that cannot be read, and the closing log line was not written
ReconciliationThrew ==
    /\ gen \in {"part_000", "part_001"}
    /\ pc \in {"done", "failed"}
    /\ feedFetch \in {"notarray", "unreadable"}
    /\ catalog # <<>>
    /\ ~reported.logged

\* C24: when the reconciliation fails part-way, the build goes on with the prices of the
\* catalog: no product's price or last_updated differs from its catalog value, in the
\* products rendered and in the price cells written.
C24_ThrowKeepsCatalogPrices ==
    ReconciliationThrew =>
        /\ \A i \in 1..Len(catalog) :
              /\ productsData[i].price = catalog[i].price
              /\ productsData[i].last_updated = catalog[i].last_updated
        /\ IsProductDocument(output) => PriceCells(output) = CatalogPriceCells(catalog)

-----------------------------------------------------------------------------
(* Claims about the prices update-html.js writes (SpecSite) *)

\* prices.json has no price for the key: no entry, or an entry whose price is null, 0 or
\* absent
NoPriceFor(key) ==
    \A i \in 1..Len(catalog) :
        catalog[i].key = key =>
            ~catalog[i].present \/ catalog[i].price \in {Null, Num(0), Undef}

\* C25: updateHtmlWithPrices leaves the price cell, the price-per-watt cell and the
\* data-price attribute of a row as they were when prices.json has no price for the row.
C25_NoPriceKeepsRow ==
    [][(gen = "update" /\ csvFetch = "ok" /\ output # NoFile /\ runs' = runs + 1) =>
          \A j \in 1..Len(TBodyRows(output)) :
              NoPriceFor(TBodyRows(output)[j].key) =>
                  /\ TBodyRows(output')[j].price = TBodyRows(output)[j].price
                  /\ TBodyRows(output')[j].ppw = TBodyRows(output)[j].ppw
                  /\ TBodyRows(output')[j].dataPrice = TBodyRows(output)[j].dataPrice]_vars

(***************************************************************************)
(* Claims about the last known good price of data/prices.json (SpecFetch)  *)
(***************************************************************************)
\* the entry holds a price
HoldsPrice(entry) == Truthy(entry.price)

\* the run obtained a price for the product: an item of the response carries
\* the product's ASIN and a price
ObtainedPrice(product, items, clock) ==
    \E i \in 1..Len(items) :
        /\ items[i].ASIN = product.asin
        /\ Truthy(extractPriceInfo(items[i], clock).price)

\* C26: across a run of main, a key whose existing entry holds a price keeps
\* that very entry when the run obtains no price for it (its item is absent
\* from the response, the batch failed, or the item came back without a price)
C26_LastKnownGoodPriceKept ==
    [][(gen = "fetch" /\ runs' = runs + 1) =>
          \A i \in 1..Len(catalog) :
              (HoldsPrice(priceTable[catalog[i].key])
                  /\ ~ObtainedPrice(catalog[i], feed', runs'))
              => priceTable'[catalog[i].key] = priceTable[catalog[i].key]]_vars

(***************************************************************************)
(* Claims about the tier attribute of the emitted rows (SpecAll)           *)
(***************************************************************************)
\* the tier of the wattage a row shows in data-wattage
TierOfRow(row) == TierOf(WattValue(Str(row.wattage)))

\* C27: every emitted row that carries data-product-type has there the tier of
\* its own data-wattage (at most 500 small, at most 1500 medium, else large),
\* the rows of the fixed productRows table included.
C27_TypeIsTierOfOwnWattage ==
    WroteRows =>
        \A i \in 1..Len(EmittedRows) :
            "data-product-type" \in EmittedRows[i].attrs
                => EmittedRows[i].productType = TierOfRow(EmittedRows[i])

(***************************************************************************)
(* Claims about the sorting script of update-html.js (SpecSite)            *)
(***************************************************************************)
\* main of update-html.js has written the page at least once
UpdateWrote ==
    /\ gen = "update" /\ csvFetch = "ok" /\ output # NoFile
    /\ (runs >= 1 \/ pc = "failed")

ShowsPrice(row) == row.price \notin {PriceUnavailable, NA}

PricedRows(rows) == Cardinality({i \in 1..Len(rows) : ShowsPrice(rows[i])})

\* the part of the document a generator writes its counts into
CountKind ==
    CASE gen \in {"part_000", "part_001"} -> "stats"
      [] gen = "static" -> "count"
      [] OTHER -> CountSpan(0).k

CountTokens(doc) == {i \in 1..Len(doc) : doc[i].k = CountKind}

\* C29: the "with prices" count written into the document is the number of
\* emitted rows whose price cell shows a price, and together with the
\* "price unavailable" count it gives the number of emitted rows.
C29_CountsMatchRows ==
    (WroteRows /\ CountTokens(output) # {}) =>
        LET written == output[Least(CountTokens(output))]
        IN  /\ written.priced = PricedRows(EmittedRows)
            /\ gen \in BuildGens => written.total = Len(EmittedRows)

(***************************************************************************)
(* Claims about the texts of the price cells (SpecAll)                     *)
(***************************************************************************)
\* "$" followed by a finite decimal amount above zero: digits with at most one
\* point (and thousands separators), one of the digits not 0
IsPositiveAmount(cs) ==
    /\ Len(cs) >= 2
    /\ cs[1] = "$"
    /\ \A i \in 2..Len(cs) : IsDigit(cs[i]) \/ cs[i] \in {".", ","}
    /\ Cardinality({i \in 2..Len(cs) : cs[i] = "."}) <= 1
    /\ \E i \in 2..Len(cs) : IsDigit(cs[i]) /\ cs[i] # "0"

IsPriceCell(cs) == cs \in {PriceUnavailable, NA} \/ IsPositiveAmount(cs)

\* C30: every price cell and every price-per-watt cell a generator emits is the
\* no-price literal ("Price unavailable" or "N/A") or "$" followed by a finite,
\* strictly positive decimal amount.
C30_CellsAreLiteralOrAmount ==
    (WroteRows \/ UpdateWrote) =>
        \A i \in 1..Len(EmittedRows) :
            IsPriceCell(EmittedRows[i].price) /\ IsPriceCell(EmittedRows[i].ppw)

====
